---------------------------- MODULE Spec2Model ----------------------------
(***************************************************************************)
(* Model of the pricing-fetcher batch passes:                              *)
(*   - scrape_prices.py : rotation slice, batched fetch, chunked save,     *)
(*                        quarantine of failed symbols                     *)
(*   - alerts.py        : check_price_alerts (classification, cooldown,    *)
(*                        notification, AlertHistory rows)                 *)
(*   - backtest.py      : simulate_trade (exit policy walk)                *)
(*                                                                         *)
(* Time is counted in quarter hours (the granularity of the rotation slot, *)
(* scrape_prices.py:71): one hour is 4 ticks, one day is 96 ticks.         *)
(* A nullable column is a sequence: <<>> is NULL, <<v>> is the value v.    *)
(***************************************************************************)
EXTENDS Integers, Sequences, FiniteSets, TLC

VARIABLES
    now,                \* wall clock, in quarter hours
    SYMBOLS_PER_RUN,    \* scrape_prices.py:42 (environment configuration)
    BATCH_SIZE,         \* scrape_prices.py:41 (environment configuration)
    quarantined_until,  \* table stock_symbols: id -> nullable timestamp
    pc,                 \* position of the scraper run (__main__)
    runs,               \* number of scraper runs started so far
    total_active,       \* fetch_stock_prices: active_query.count()
    offset,             \* fetch_stock_prices: the window start of the run
    stock_symbols,      \* fetch_stock_prices: the slice of the run (ids)
    covered,            \* ids selected by some run so far (observer, SpecRotation)
    stock_data,         \* fetch_stock_prices: the quotes fetched by the run
    failed_symbols,     \* fetch_stock_prices: the symbols without usable quote
    quarantine_committed, \* whether quarantine_symbols committed in this run
    db_faults,          \* database operations of the scraper that raised so far
    save_log,           \* save_stock_prices: per chunk of the run, the number of
                        \* writes attempted and whether the chunk was committed
    stock_prices,       \* table stock_prices: set of rows
    alerts_config,      \* table price_alerts (enabled rows): symbol -> threshold
    alert_history,      \* table alert_history: sequence of rows, index = id
    send_log,           \* Telegram: every send attempt [symbol, at, ok]
    candidates,         \* check_price_alerts: candidates of the last pass
    attempted,          \* check_price_alerts: symbols whose send was attempted
    alerts_sent,        \* check_price_alerts: value returned by the last pass
    hist_before,        \* rows of alert_history before the last pass (observer)
    pass_ran,           \* whether a detection pass has run (observer)
    pass_raised,        \* whether the last pass ended in its except branch
    probe,              \* inputs of the per-symbol classification (SpecClassify)
    entry_price,        \* simulate_trade: parameter entry_price
    is_long,            \* simulate_trade: parameter is_long
    trade_pc,           \* simulate_trade: "walk", "settled" or "none" (returned None)
    trade_i,            \* simulate_trade: number of samples examined without exit
    row,                \* simulate_trade: the sample examined last, NULL before the first
    max_gain,           \* simulate_trade: local max_gain (times entry_price)
    max_drawdown,       \* simulate_trade: local max_drawdown (times entry_price)
    trailing_stop_active, \* simulate_trade: local trailing_stop_active
    trailing_stop_level,  \* simulate_trade: local trailing_stop_level (times entry_price)
    trade,              \* simulate_trade: the settlement returned, NULL if none
    alert_outcomes,     \* table alert_outcomes: sequence of rows, index = id
    backtest_pc,        \* backtest.py check: "idle", "synced", "sync_failed" or "checked"
    settled_from,       \* per outcome row: the hist its trade was settled from (observer)
    outcomes_list,      \* calc_stats: parameter outcomes_list
    stats,              \* calc_stats: the dictionary returned, NULL before the call
    best,               \* generate_report: the rows of the best trades
    worst,              \* generate_report: the rows of the worst trades
    overlapping         \* detection passes running side by side: per pass, its position and locals

cfgVars == <<SYMBOLS_PER_RUN, BATCH_SIZE>>
sliceVars == <<total_active, offset, stock_symbols>>
fetchVars == <<stock_data, failed_symbols, quarantine_committed, db_faults, save_log>>
scrapeVars == <<cfgVars, quarantined_until, pc, runs, sliceVars, covered, fetchVars>>
passVars == <<candidates, attempted, alerts_sent, hist_before, pass_ran, pass_raised>>
alertVars == <<alerts_config, alert_history, send_log, passVars>>
walkVars == <<trade_i, row, max_gain, max_drawdown, trailing_stop_active,
              trailing_stop_level>>
tradeVars == <<entry_price, is_long, trade_pc, walkVars, trade>>
outcomeVars == <<alert_outcomes, backtest_pc, settled_from>>
reportVars == <<outcomes_list, stats, best, worst>>
vars == <<now, scrapeVars, stock_prices, alertVars, probe, tradeVars, outcomeVars,
          reportVars, overlapping>>

----------------------------------------------------------------------------
(* Bounds of the model *)

MaxActive == 98
MaxSymbolsPerRun == 2
MaxSymbols == 3
MaxBatchSize == 2
MaxSymbolFails == 1
MaxRuns == 2
MaxObserve == 2
MaxFaults == 1

(* Program constants *)

TAKE_PROFIT_PCT == 3
STOP_LOSS_PCT == -3
TRAILING_STOP_TRIGGER == 3
TRAILING_GAP == 2
MAX_HOLD_HOURS == 24
SAMPLE_MINUTES == 5
DEFAULT_BATCH_SIZE == 100
DEFAULT_SYMBOLS_PER_RUN == 300
QUARANTINE_DAYS == 7
QUARANTINE_CAP == 50
SAVE_BATCH_SIZE == 50
PRUNE_HOURS == 24
UNIVERSE_CAP == 50000
DEFAULT_THRESHOLD_PERCENT == 3
VOLUME_MULTIPLIER == 2
LOOKBACK_HOURS == 1
ALERT_COOLDOWN_HOURS == 4
EXTREME_PCT == 15
AVG_VOLUME_HOURS == 8

TicksPerHour == 2 + 2
TicksPerDay == 24 * TicksPerHour

\* The cooldown in ticks, and the last instant of a history that starts one
\* lookback after the first rows and sees a cooldown run out.
CooldownTicks == ALERT_COOLDOWN_HOURS * TicksPerHour
AlertHorizon == (LOOKBACK_HOURS * TicksPerHour) + CooldownTicks

----------------------------------------------------------------------------
(* Helpers *)

Min(a, b) == IF a <= b THEN a ELSE b
Max(a, b) == IF a >= b THEN a ELSE b
Range(s) == {s[i] : i \in 1..Len(s)}
NULL == <<>>
IsNull(v) == v = <<>>
Ids(n) == [i \in 1..n |-> i]
Abs(x) == IF x < 0 THEN -x ELSE x
Perms(S) == {f \in [1..Cardinality(S) -> S] : \A i, j \in DOMAIN f : i # j => f[i] # f[j]}

----------------------------------------------------------------------------
(* scrape_prices.py : the rotation scheduler *)

\* A filter that lets a quarantine end at quarantined_until itself (not what
\* the code does).
ActiveFromDeadline(table, t) ==
    SelectSeq(Ids(Len(table)),
              LAMBDA s : IsNull(table[s]) \/ table[s][1] <= t)

\* get_active_symbols: rows with quarantined_until NULL or < now, in id order.
get_active_symbols(table, t) ==
    SelectSeq(Ids(Len(table)),
              LAMBDA s : IsNull(table[s]) \/ table[s][1] < t)

\* get_rotation_offset: slot = hour * 4 + minute // 15.
get_rotation_offset(t, spr) ==
    LET current_hour == (t \div TicksPerHour) % 24
        current_minute == (t % TicksPerHour) * 15
        slot == (current_hour * 4) + (current_minute \div 15)
    IN (slot * spr) % UNIVERSE_CAP

\* fetch_stock_prices line 147
WindowStart(t, spr, n) == get_rotation_offset(t, spr) % Max(n, 1)

\* A window that wraps around to the start of the list (not what the code does).
SliceWrapping(active, off, lim) ==
    [i \in 1..Min(lim, Len(active)) |-> active[((off + i - 1) % Len(active)) + 1]]

\* active_query.offset(off).limit(lim).all(): the rows after the first off,
\* at most lim of them; nothing past the end of the list.
SliceOf(active, off, lim) ==
    SubSeq(active, off + 1, Min(off + lim, Len(active)))

\* fetch_stock_prices lines 143-148: the slice selected by a run at time t.
SelectSlice ==
    LET active == get_active_symbols(quarantined_until, now)
        off == WindowStart(now, SYMBOLS_PER_RUN, Len(active))
    IN /\ total_active' = Len(active)
       /\ offset' = off
       /\ stock_symbols' = SliceOf(active, off, SYMBOLS_PER_RUN)

\* No detection pass runs beside the one of the scraper run.
NoOverlap == overlapping = <<>>

\* No run in progress: the locals of a run.
FetchIdle ==
    /\ stock_data = <<>>
    /\ failed_symbols = <<>>
    /\ quarantine_committed = FALSE
    /\ db_faults = 0
    /\ save_log = <<>>

\* The subsets of S with at most k elements.
RECURSIVE SubsetsUpTo(_, _)
SubsetsUpTo(S, k) ==
    IF k = 0 THEN {{}}
    ELSE LET R == SubsetsUpTo(S, k - 1)
         IN R \cup {F \cup {x} : F \in R, x \in S}

\* fetch_batch_fast line 121: a usable quote has close > 0.
ScrapeQuote == [price |-> 100, volume |-> <<10>>]

\* The loop with a batch whose download raised after some of its symbols
\* had been read: they stay in stock_data and the whole batch is failed (not
\* what the code does).
FetchLoopOutageKeepsData(all_symbols, done, outage, dead) ==
    LET processed == SubSeq(all_symbols, 1, Min(done * BATCH_SIZE, Len(all_symbols)))
        batch_num(i) == ((i - 1) \div BATCH_SIZE) + 1
        fails(i) == batch_num(i) \in outage \/ processed[i] \in dead
        bad == SelectSeq(Ids(Len(processed)), LAMBDA i : fails(i))
        good == SelectSeq(Ids(Len(processed)), LAMBDA i : processed[i] \notin dead)
    IN /\ stock_data' = [k \in 1..Len(good) |->
                            [symbol |-> processed[good[k]],
                             price |-> ScrapeQuote.price,
                             volume |-> ScrapeQuote.volume]]
       /\ failed_symbols' = [k \in 1..Len(bad) |-> processed[bad[k]]]

\* fetch_stock_prices lines 159-187: the batch loop over all_symbols. The loop
\* runs done batches before should_stop() ends it; the batches in outage
\* return no data at all (lines 109-110, 132-134), the symbols in dead have no
\* usable close (lines 128-131).
FetchLoop(all_symbols, done, outage, dead) ==
    LET processed == SubSeq(all_symbols, 1, Min(done * BATCH_SIZE, Len(all_symbols)))
        batch_num(i) == ((i - 1) \div BATCH_SIZE) + 1
        fails(i) == batch_num(i) \in outage \/ processed[i] \in dead
        bad == SelectSeq(Ids(Len(processed)), LAMBDA i : fails(i))
        good == SelectSeq(Ids(Len(processed)), LAMBDA i : ~fails(i))
    IN /\ stock_data' = [k \in 1..Len(good) |->
                            [symbol |-> processed[good[k]],
                             price |-> ScrapeQuote.price,
                             volume |-> ScrapeQuote.volume]]
       /\ failed_symbols' = [k \in 1..Len(bad) |-> processed[bad[k]]]

\* fetch_stock_prices lines 138-187.
fetch_stock_prices ==
    /\ SelectSlice
    /\ LET all_symbols == stock_symbols'
           total_batches == (Len(all_symbols) + BATCH_SIZE - 1) \div BATCH_SIZE
       IN \E done \in 0..total_batches :
          \E outage \in SUBSET (1..done) :
          \E dead \in SubsetsUpTo(Range(all_symbols), MaxSymbolFails) :
             FetchLoop(all_symbols, done, outage, dead)

\* A save that keeps the observations of a complete slice only (not what the
\* code does).
SaveCompleteSliceOnly(committed, pruned) ==
    IF stock_data = <<>> \/ Len(stock_data) + Len(failed_symbols) < Len(stock_symbols)
    THEN UNCHANGED stock_prices
    ELSE stock_prices' = stock_prices \cup
             {[symbol |-> stock_data[i].symbol, price |-> stock_data[i].price,
               volume |-> stock_data[i].volume, timestamp |-> now] :
                 i \in DOMAIN stock_data}

\* A save that gives up at the first chunk whose write fails (not what the
\* code does).
SaveStopsAtFailedChunk(committed, pruned) ==
    IF stock_data = <<>>
    THEN UNCHANGED stock_prices
    ELSE LET chunk(i) == ((i - 1) \div SAVE_BATCH_SIZE) + 1
             saved == {[symbol |-> stock_data[i].symbol,
                        price |-> stock_data[i].price,
                        volume |-> stock_data[i].volume,
                        timestamp |-> now] :
                          i \in {j \in DOMAIN stock_data :
                                    \A c \in 1..chunk(j) : committed[c]}}
         IN stock_prices' = stock_prices \cup saved

\* save_stock_prices lines 189-223: chunks of 50 rows, each committed or rolled
\* back as a whole (committed[c] tells which); then the rows older than 24
\* hours are deleted unless that commit fails. Nothing happens, the pruning
\* included, when stock_data is empty (line 192).
save_stock_prices(committed, pruned) ==
    IF stock_data = <<>>
    THEN UNCHANGED stock_prices
    ELSE LET chunk(i) == ((i - 1) \div SAVE_BATCH_SIZE) + 1
             saved == {[symbol |-> stock_data[i].symbol,
                        price |-> stock_data[i].price,
                        volume |-> stock_data[i].volume,
                        timestamp |-> now] :
                          i \in {j \in DOMAIN stock_data : committed[chunk(j)]}}
             cutoff_time == now - PRUNE_HOURS * TicksPerHour
             kept == IF pruned
                     THEN {r \in stock_prices \cup saved : ~(r.timestamp < cutoff_time)}
                     ELSE stock_prices \cup saved
         IN stock_prices' = kept

\* What quarantine_symbols updates when every failed symbol is updated (not
\* what the code does).
QuarantineAll(symbols) == symbols

\* quarantine_symbols line 82: symbols[:50].
QuarantineTargets(symbols) == SubSeq(symbols, 1, Min(QUARANTINE_CAP, Len(symbols)))

\* quarantine_symbols lines 74-90; ok tells whether session.commit() succeeds.
quarantine_symbols(symbols, ok) ==
    IF symbols = <<>>
    THEN UNCHANGED quarantined_until /\ quarantine_committed' = FALSE
    ELSE LET quarantine_until == now + QUARANTINE_DAYS * TicksPerDay
             targets == Range(QuarantineTargets(symbols))
         IN /\ quarantine_committed' = ok
            /\ quarantined_until' =
                  IF ok
                  THEN [s \in DOMAIN quarantined_until |->
                           IF s \in targets THEN <<quarantine_until>>
                           ELSE quarantined_until[s]]
                  ELSE quarantined_until

----------------------------------------------------------------------------
(* alerts.py : check_price_alerts *)

\* The state of the alert tables and of the pass before any pass has run.
AlertsIdle ==
    /\ alerts_config = <<>>
    /\ alert_history = <<>>
    /\ send_log = {}
    /\ candidates = <<>>
    /\ attempted = <<>>
    /\ alerts_sent = 0
    /\ hist_before = 0
    /\ pass_ran = FALSE
    /\ pass_raised = FALSE

\* percent_change = ((current - historical) / historical) * 100, kept exact as
\* the numerator over the denominator historical (> 0).
PercentChangeNum(current_price, historical_price) ==
    (current_price - historical_price) * 100

\* lines 245-248: current_volume / avg_vol when both are present and non-zero;
\* the average is the exact fraction sum / cnt of the AVG() query.
VolumeRatio(current_volume, avg_vol) ==
    IF /\ ~IsNull(current_volume) /\ current_volume[1] # 0
       /\ ~IsNull(avg_vol) /\ avg_vol[1].sum > 0
    THEN <<[num |-> current_volume[1] * avg_vol[1].cnt, den |-> avg_vol[1].sum]>>
    ELSE NULL

\* The extreme rule tried before the volume-confirmed rule (not the code's order).
ClassifyExtremeFirst(pcn, hp, volume_ratio, threshold) ==
    LET is_significant_move == Abs(pcn) >= threshold * hp
        is_volume_spike == /\ ~IsNull(volume_ratio)
                           /\ volume_ratio[1].num >= VOLUME_MULTIPLIER * volume_ratio[1].den
        is_extreme_move == Abs(pcn) >= EXTREME_PCT * hp
    IN IF is_extreme_move
       THEN <<IF pcn > 0 THEN "extreme_up" ELSE "extreme_down">>
       ELSE IF is_significant_move /\ is_volume_spike
       THEN <<IF pcn > 0 THEN "volume_spike_up" ELSE "volume_spike_down">>
       ELSE NULL

\* A significant move alerts without volume confirmation (the former
\* "regular spike" rule, not what the code does).
ClassifyRegularSpike(pcn, hp, volume_ratio, threshold) ==
    LET is_significant_move == Abs(pcn) >= threshold * hp
        is_volume_spike == /\ ~IsNull(volume_ratio)
                           /\ volume_ratio[1].num >= VOLUME_MULTIPLIER * volume_ratio[1].den
    IN IF is_significant_move /\ is_volume_spike
       THEN <<IF pcn > 0 THEN "volume_spike_up" ELSE "volume_spike_down">>
       ELSE IF is_significant_move
       THEN <<IF pcn > 0 THEN "extreme_up" ELSE "extreme_down">>
       ELSE NULL

\* lines 257-272: alert_type, NULL when should_alert stays False.
\* pcn / hp is percent_change.
Classify(pcn, hp, volume_ratio, threshold) ==
    LET is_significant_move == Abs(pcn) >= threshold * hp
        is_volume_spike == /\ ~IsNull(volume_ratio)
                           /\ volume_ratio[1].num # 0
                           /\ volume_ratio[1].num >= VOLUME_MULTIPLIER * volume_ratio[1].den
        is_extreme_move == Abs(pcn) >= EXTREME_PCT * hp
    IN IF is_significant_move /\ is_volume_spike
       THEN <<IF pcn > 0 THEN "volume_spike_up" ELSE "volume_spike_down">>
       ELSE IF is_extreme_move
       THEN <<IF pcn > 0 THEN "extreme_up" ELSE "extreme_down">>
       ELSE NULL

\* lines 235-290: the body of the per-symbol loop; <<candidate>> or NULL.
CandidateOf(symbol, current_price, current_volume, historical_price, avg_vol, threshold, in_cooldown) ==
    IF IsNull(historical_price) \/ historical_price[1] = 0
    THEN NULL
    ELSE LET hp == historical_price[1]
             pcn == PercentChangeNum(current_price, hp)
             volume_ratio == VolumeRatio(current_volume, avg_vol)
             alert_type == Classify(pcn, hp, volume_ratio, threshold)
         IN IF IsNull(alert_type) THEN NULL
            ELSE IF in_cooldown THEN NULL
            ELSE <<[symbol |-> symbol,
                    historical_price |-> hp,
                    current_price |-> current_price,
                    alert_type |-> alert_type[1],
                    volume |-> current_volume,
                    volume_ratio |-> volume_ratio]>>

\* The symbols of a set of stock_prices rows.
SymbolsOf(rows) == {r.symbol : r \in rows}

\* lines 167-178 / 188-201: the rows carrying the greatest timestamp of their
\* symbol (several when two rows of a symbol share it).
LatestRows(rows) ==
    {r \in rows : \A q \in rows : q.symbol = r.symbol => q.timestamp <= r.timestamp}

\* lines 181 / 203: {p.symbol: ... for p in rows}. A dict keeps one entry per
\* symbol, the row the query returned last; the query has no ORDER BY, so any
\* row of the symbol may be that one.
Dicts(rows) ==
    IF \A r, q \in rows : r.symbol = q.symbol => r = q
    THEN {[s \in SymbolsOf(rows) |-> CHOOSE r \in rows : r.symbol = s]}
    ELSE {f \in [SymbolsOf(rows) -> rows] : \A s \in SymbolsOf(rows) : f[s].symbol = s}

\* One entry per row of latest, the symbols 1..n in id order.
RECURSIVE RowSymbols(_, _)
RowSymbols(latest, n) ==
    IF n = 0 THEN <<>>
    ELSE RowSymbols(latest, n - 1) \o
         [i \in 1..Cardinality({r \in latest : r.symbol = n}) |-> n]

\* One list entry per row instead of one per dict key (not what the code does).
SymbolListPerRow(current_data, latest) ==
    RowSymbols(latest, Len(quarantined_until))

\* line 182: symbols = list(current_data.keys()), one entry per key (listed
\* here by id; the order the send loop sees is chosen in check_price_alerts).
SymbolList(current_data, latest) ==
    SelectSeq(Ids(Len(quarantined_until)), LAMBDA s : s \in DOMAIN current_data)

RECURSIVE SumVolume(_)
SumVolume(rows) ==
    IF rows = {} THEN 0
    ELSE LET r == CHOOSE x \in rows : TRUE
         IN r.volume[1] + SumVolume(rows \ {r})

\* lines 208-217: AVG(volume) over the rows of the last 8 hours with a volume.
AvgVolume(rows, symbol, since) ==
    LET R == {r \in rows : /\ r.symbol = symbol
                           /\ r.timestamp >= since
                           /\ ~IsNull(r.volume)
                           /\ r.volume[1] > 0}
    IN IF R = {} \/ SumVolume(R) = 0 THEN NULL
       ELSE <<[sum |-> SumVolume(R), cnt |-> Cardinality(R)]>>

\* The cooldown gate left out (not what the code does).
NoCooldown(history, cooldown_time) == {}

\* lines 222-226: the symbols with an AlertHistory row newer than cooldown_time.
CooldownSymbols(history, cooldown_time) ==
    {history[i].symbol : i \in {j \in DOMAIN history : history[j].sent_at > cooldown_time}}

\* lines 232-290: the candidates, in the order of symbols.
CandidatesOf(symbols, current_data, historical_data, config, cooldown_symbols, t) ==
    LET cand(s) ==
            CandidateOf(s, current_data[s].price, current_data[s].volume,
                        IF s \in DOMAIN historical_data
                        THEN <<historical_data[s].price>> ELSE NULL,
                        AvgVolume(stock_prices, s, t - AVG_VOLUME_HOURS * TicksPerHour),
                        IF s \in DOMAIN config THEN config[s]
                        ELSE DEFAULT_THRESHOLD_PERCENT,
                        s \in cooldown_symbols)
        pos == SelectSeq(Ids(Len(symbols)), LAMBDA i : ~IsNull(cand(symbols[i])))
    IN [k \in 1..Len(pos) |-> cand(symbols[pos[k]])[1]]

\* What can happen to one candidate in the send loop (lines 296-323):
\* Telegram refuses, the row is committed, or session.commit() raises.
SendOutcomes == {"ok", "send_failed", "commit_failed"}

\* lines 296-334: the send loop over cands under the outcomes o. The loop stops
\* at the first candidate whose commit raises; the handler then returns 0.
SendLoop(cands, o) ==
    LET n == Len(cands)
        raised == {i \in 1..n : o[i] = "commit_failed"}
        stop == IF raised = {} THEN n + 1
                ELSE CHOOSE i \in raised : \A j \in raised : i <= j
        tried == 1..Min(stop, n)
        okPos == SelectSeq(Ids(n), LAMBDA i : i < stop /\ o[i] = "ok")
    IN /\ attempted' = [i \in tried |-> cands[i].symbol]
       /\ send_log' = send_log \cup
              {[symbol |-> cands[i].symbol, at |-> now, ok |-> o[i] # "send_failed"] :
                  i \in tried}
       /\ alert_history' = alert_history \o
              [k \in 1..Len(okPos) |->
                  [symbol |-> cands[okPos[k]].symbol,
                   alert_type |-> cands[okPos[k]].alert_type,
                   price_before |-> cands[okPos[k]].historical_price,
                   price_after |-> cands[okPos[k]].current_price,
                   sent_at |-> now]]
       /\ alerts_sent' = IF stop <= n THEN 0 ELSE Len(okPos)
       /\ pass_raised' = (stop <= n)

\* The notifications so far that Telegram refused or whose commit raised.
SendFaults ==
    {a \in send_log :
        \/ ~a.ok
        \/ ~\E i \in DOMAIN alert_history :
                alert_history[i].symbol = a.symbol /\ alert_history[i].sent_at = a.at}

\* lines 129-334: one detection pass.
check_price_alerts ==
    /\ pass_ran' = TRUE
    /\ hist_before' = Len(alert_history)
    /\ \/ \* a query raises: the handler prints the error and returns 0
          /\ candidates' = <<>>
          /\ attempted' = <<>>
          /\ alerts_sent' = 0
          /\ pass_raised' = TRUE
          /\ UNCHANGED <<alert_history, send_log>>
       \/ \E configOk \in (IF alerts_config = <<>> THEN {TRUE} ELSE BOOLEAN) :
          LET config == IF configOk THEN alerts_config ELSE <<>>
              lookback_time == now - LOOKBACK_HOURS * TicksPerHour
              cooldown_time == now - ALERT_COOLDOWN_HOURS * TicksPerHour
              latest == LatestRows(stock_prices)
              historical == LatestRows({r \in stock_prices : r.timestamp <= lookback_time})
              cooldown_symbols == CooldownSymbols(alert_history, cooldown_time)
          IN \E current_data \in Dicts(latest), historical_data \in Dicts(historical) :
                LET symbols == SymbolList(current_data, latest)
                    found == CandidatesOf(symbols, current_data, historical_data,
                                          config, cooldown_symbols, now)
                IN \* the queries have no ORDER BY: the rows, hence the
                   \* candidates, come in any order
                   \E order \in Perms(1..Len(found)) :
                      LET cands == [i \in 1..Len(found) |-> found[order[i]]]
                      IN /\ candidates' = cands
                         /\ \E o \in [1..Len(cands) -> SendOutcomes] :
                               /\ \A i, j \in 1..Len(cands) :
                                     (o[i] = "commit_failed" /\ i < j) => o[j] = "ok"
                               /\ Cardinality(SendFaults)
                                     + Cardinality({i \in 1..Len(cands) : o[i] # "ok"})
                                     <= MaxFaults
                               /\ SendLoop(cands, o)
    /\ UNCHANGED <<alerts_config>>

----------------------------------------------------------------------------
(* backtest.py : simulate_trade *)
(* A gain is a percentage; the model keeps it multiplied by entry_price,   *)
(* as the integer (price - entry_price) * 100, and multiplies the          *)
(* percentages it is compared with by entry_price as well.                 *)

\* No outcome tracked and no report computed.
BacktestIdle ==
    /\ alert_outcomes = <<>>
    /\ backtest_pc = "idle"
    /\ settled_from = <<>>
    /\ outcomes_list = <<>>
    /\ stats = NULL
    /\ best = <<>>
    /\ worst = <<>>

\* No simulation in progress.
TradeIdle ==
    /\ entry_price = 0
    /\ is_long = TRUE
    /\ trade_pc = "none"
    /\ trade_i = 0
    /\ row = NULL
    /\ max_gain = 0
    /\ max_drawdown = 0
    /\ trailing_stop_active = FALSE
    /\ trailing_stop_level = 0
    /\ trade = NULL

\* The gains of a sample with the extremes of a short entry not exchanged
\* (not what the code does).
SampleGainsUnswapped(sample, entry, long) ==
    IF long
    THEN [high |-> (sample.high - entry) * 100,
          low |-> (sample.low - entry) * 100,
          close |-> (sample.close - entry) * 100]
    ELSE [high |-> (entry - sample.high) * 100,
          low |-> (entry - sample.low) * 100,
          close |-> (entry - sample.close) * 100]

\* lines 148-155: current_gain_high, current_gain_low, current_gain of a sample.
SampleGains(sample, entry, long) ==
    IF long
    THEN [high |-> (sample.high - entry) * 100,
          low |-> (sample.low - entry) * 100,
          close |-> (sample.close - entry) * 100]
    ELSE [high |-> (entry - sample.low) * 100,
          low |-> (entry - sample.high) * 100,
          close |-> (entry - sample.close) * 100]

Settlement(result, exit_reason, mg, md, hold_minutes) ==
    [result |-> result, exit_reason |-> exit_reason, max_gain |-> mg,
     max_drawdown |-> md, hold_minutes |-> hold_minutes]

\* The exit checks with the stop-loss tried before the take-profit (not the
\* code's order).
ExitStopLossFirst(i, g, entry, mg, md, active, level) ==
    IF g.low <= STOP_LOSS_PCT * entry
    THEN <<Settlement(STOP_LOSS_PCT * entry, "stop_loss", mg, md, (i + 1) * SAMPLE_MINUTES)>>
    ELSE IF g.high >= TAKE_PROFIT_PCT * entry
    THEN <<Settlement(TAKE_PROFIT_PCT * entry, "take_profit", mg, md, (i + 1) * SAMPLE_MINUTES)>>
    ELSE IF active /\ g.low <= level
    THEN <<Settlement(level, "trailing_stop", mg, md, (i + 1) * SAMPLE_MINUTES)>>
    ELSE IF (i + 1) * SAMPLE_MINUTES >= MAX_HOLD_HOURS * 60
    THEN <<Settlement(g.close, "timeout", mg, md, (i + 1) * SAMPLE_MINUTES)>>
    ELSE NULL

\* The exit checks with the stop-loss settled at the sample's actual adverse
\* extreme instead of STOP_LOSS_PCT (not what the code does).
ExitStopAtLow(i, g, entry, mg, md, active, level) ==
    IF g.high >= TAKE_PROFIT_PCT * entry
    THEN <<Settlement(TAKE_PROFIT_PCT * entry, "take_profit", mg, md, (i + 1) * SAMPLE_MINUTES)>>
    ELSE IF g.low <= STOP_LOSS_PCT * entry
    THEN <<Settlement(g.low, "stop_loss", mg, md, (i + 1) * SAMPLE_MINUTES)>>
    ELSE IF active /\ g.low <= level
    THEN <<Settlement(level, "trailing_stop", mg, md, (i + 1) * SAMPLE_MINUTES)>>
    ELSE IF (i + 1) * SAMPLE_MINUTES >= MAX_HOLD_HOURS * 60
    THEN <<Settlement(g.close, "timeout", mg, md, (i + 1) * SAMPLE_MINUTES)>>
    ELSE NULL

\* The exit checks with the timeout tried before the two stops (not the
\* code's order).
ExitTimeoutFirst(i, g, entry, mg, md, active, level) ==
    IF g.high >= TAKE_PROFIT_PCT * entry
    THEN <<Settlement(TAKE_PROFIT_PCT * entry, "take_profit", mg, md, (i + 1) * SAMPLE_MINUTES)>>
    ELSE IF (i + 1) * SAMPLE_MINUTES >= MAX_HOLD_HOURS * 60
    THEN <<Settlement(g.close, "timeout", mg, md, (i + 1) * SAMPLE_MINUTES)>>
    ELSE IF g.low <= STOP_LOSS_PCT * entry
    THEN <<Settlement(STOP_LOSS_PCT * entry, "stop_loss", mg, md, (i + 1) * SAMPLE_MINUTES)>>
    ELSE IF active /\ g.low <= level
    THEN <<Settlement(level, "trailing_stop", mg, md, (i + 1) * SAMPLE_MINUTES)>>
    ELSE NULL

\* The exit checks with the trailing stop tried before the take-profit (not
\* the code's order).
ExitTrailingFirst(i, g, entry, mg, md, active, level) ==
    IF active /\ g.low <= level
    THEN <<Settlement(level, "trailing_stop", mg, md, (i + 1) * SAMPLE_MINUTES)>>
    ELSE IF g.high >= TAKE_PROFIT_PCT * entry
    THEN <<Settlement(TAKE_PROFIT_PCT * entry, "take_profit", mg, md, (i + 1) * SAMPLE_MINUTES)>>
    ELSE IF g.low <= STOP_LOSS_PCT * entry
    THEN <<Settlement(STOP_LOSS_PCT * entry, "stop_loss", mg, md, (i + 1) * SAMPLE_MINUTES)>>
    ELSE IF (i + 1) * SAMPLE_MINUTES >= MAX_HOLD_HOURS * 60
    THEN <<Settlement(g.close, "timeout", mg, md, (i + 1) * SAMPLE_MINUTES)>>
    ELSE NULL

\* The exit checks with the timeout tried before everything else (not the
\* code's order).
ExitTimeoutBeforeAll(i, g, entry, mg, md, active, level) ==
    IF (i + 1) * SAMPLE_MINUTES >= MAX_HOLD_HOURS * 60
    THEN <<Settlement(g.close, "timeout", mg, md, (i + 1) * SAMPLE_MINUTES)>>
    ELSE IF g.high >= TAKE_PROFIT_PCT * entry
    THEN <<Settlement(TAKE_PROFIT_PCT * entry, "take_profit", mg, md, (i + 1) * SAMPLE_MINUTES)>>
    ELSE IF g.low <= STOP_LOSS_PCT * entry
    THEN <<Settlement(STOP_LOSS_PCT * entry, "stop_loss", mg, md, (i + 1) * SAMPLE_MINUTES)>>
    ELSE IF active /\ g.low <= level
    THEN <<Settlement(level, "trailing_stop", mg, md, (i + 1) * SAMPLE_MINUTES)>>
    ELSE NULL

\* The exit checks with the hold time counted from the 0-based index of the
\* sample (not what the code does).
ExitCountsFromZero(i, g, entry, mg, md, active, level) ==
    IF g.high >= TAKE_PROFIT_PCT * entry
    THEN <<Settlement(TAKE_PROFIT_PCT * entry, "take_profit", mg, md, i * SAMPLE_MINUTES)>>
    ELSE IF g.low <= STOP_LOSS_PCT * entry
    THEN <<Settlement(STOP_LOSS_PCT * entry, "stop_loss", mg, md, i * SAMPLE_MINUTES)>>
    ELSE IF active /\ g.low <= level
    THEN <<Settlement(level, "trailing_stop", mg, md, i * SAMPLE_MINUTES)>>
    ELSE IF (i + 1) * SAMPLE_MINUTES >= MAX_HOLD_HOURS * 60
    THEN <<Settlement(g.close, "timeout", mg, md, i * SAMPLE_MINUTES)>>
    ELSE NULL

\* lines 168-202: the exit checks on sample number i (from 0) with gains g,
\* after max_gain, max_drawdown and the trailing stop have been updated;
\* <<settlement>>, or NULL when the walk goes on.
ExitOf(i, g, entry, mg, md, active, level) ==
    IF g.high >= TAKE_PROFIT_PCT * entry
    THEN <<Settlement(TAKE_PROFIT_PCT * entry, "take_profit", mg, md, (i + 1) * SAMPLE_MINUTES)>>
    ELSE IF g.low <= STOP_LOSS_PCT * entry
    THEN <<Settlement(STOP_LOSS_PCT * entry, "stop_loss", mg, md, (i + 1) * SAMPLE_MINUTES)>>
    ELSE IF active /\ g.low <= level
    THEN <<Settlement(level, "trailing_stop", mg, md, (i + 1) * SAMPLE_MINUTES)>>
    ELSE IF (i + 1) * SAMPLE_MINUTES >= MAX_HOLD_HOURS * 60
    THEN <<Settlement(g.close, "timeout", mg, md, (i + 1) * SAMPLE_MINUTES)>>
    ELSE NULL

\* One turn of the loop with the trailing level following the close of the
\* sample instead of max_gain, without the ratchet (not what the code does).
WalkSampleTrailsClose(sample) ==
    LET g == SampleGains(sample, entry_price, is_long)
        mg == Max(max_gain, g.high)
        md == Min(max_drawdown, g.low)
        activate == mg >= TRAILING_STOP_TRIGGER * entry_price /\ ~trailing_stop_active
        active == trailing_stop_active \/ activate
        level == IF active THEN g.close - TRAILING_GAP * entry_price
                 ELSE trailing_stop_level
        exit == ExitOf(trade_i, g, entry_price, mg, md, active, level)
    IN /\ row' = <<sample>>
       /\ max_gain' = mg
       /\ max_drawdown' = md
       /\ trailing_stop_active' = active
       /\ trailing_stop_level' = level
       /\ IF IsNull(exit)
          THEN /\ trade_i' = trade_i + 1
               /\ UNCHANGED <<trade_pc, trade>>
          ELSE /\ trade' = exit
               /\ trade_pc' = "settled"
               /\ UNCHANGED trade_i

\* lines 143-202: one turn of the loop, on the next sample of hist.
WalkSample(sample) ==
    LET g == SampleGains(sample, entry_price, is_long)
        mg == Max(max_gain, g.high)
        md == Min(max_drawdown, g.low)
        activate == mg >= TRAILING_STOP_TRIGGER * entry_price /\ ~trailing_stop_active
        active == trailing_stop_active \/ activate
        level0 == IF activate THEN 0 ELSE trailing_stop_level
        level == IF active THEN Max(level0, mg - TRAILING_GAP * entry_price) ELSE level0
        exit == ExitOf(trade_i, g, entry_price, mg, md, active, level)
    IN /\ row' = <<sample>>
       /\ max_gain' = mg
       /\ max_drawdown' = md
       /\ trailing_stop_active' = active
       /\ trailing_stop_level' = level
       /\ IF IsNull(exit)
          THEN /\ trade_i' = trade_i + 1
               /\ UNCHANGED <<trade_pc, trade>>
          ELSE /\ trade' = exit
               /\ trade_pc' = "settled"
               /\ UNCHANGED trade_i

\* The end-of-data settlement without the sign flip of a short entry (not
\* what the code does).
EndOfDataLongOnly ==
    /\ trade' = <<Settlement((row[1].close - entry_price) * 100,
                             "end_of_data", max_gain, max_drawdown,
                             trade_i * SAMPLE_MINUTES)>>
    /\ trade_pc' = "settled"

\* lines 204-214: hist ends before any exit; the last close settles the trade.
EndOfData ==
    /\ trade' = <<Settlement(SampleGains(row[1], entry_price, is_long).close,
                             "end_of_data", max_gain, max_drawdown,
                             trade_i * SAMPLE_MINUTES)>>
    /\ trade_pc' = "settled"

----------------------------------------------------------------------------
(* backtest.py, outcome tracking: create_outcome_from_alert,               *)
(* sync_alerts_to_outcomes, check_outcomes and the whole of simulate_trade *)
(* as check_outcomes calls it.                                             *)
(* Percentages are floats in the program; here a quotient is kept as the   *)
(* pair of its numerator and its denominator, so that no rounding is       *)
(* introduced.                                                             *)

Ratio(n, d) == [num |-> n, den |-> d]
RatioEq(a, b) == a.num * b.den = b.num * a.den

SLIPPAGE_PER_MILLE == 5
SYNC_DAYS == 30

\* 'up' in alert_type.
UpTypes == {"spike_up", "volume_spike_up", "extreme_up"}

\* lines 111-118: the row of a newly tracked alert; the columns not given
\* take their defaults.
NewOutcome(alert_id, alert) == [alert_id |-> alert_id, symbol |-> alert.symbol, alert_type |-> alert.alert_type, alert_time |-> alert.sent_at, alert_price |-> alert.price_after, price_1h |-> NULL, price_4h |-> NULL, price_24h |-> NULL, profit_1h |-> NULL, profit_4h |-> NULL, profit_24h |-> NULL, checked_1h |-> FALSE, checked_4h |-> FALSE, checked_24h |-> FALSE, trade_result |-> NULL, trade_exit_reason |-> NULL, trade_max_gain |-> NULL, trade_max_drawdown |-> NULL, trade_hold_minutes |-> NULL, trade_checked |-> FALSE]

\* The creation without the look-up of an existing row (not what the code
\* does).
CreateAlways(table, alert_id, alert) ==
    Append(table, NewOutcome(alert_id, alert))

\* lines 104-121, up to the commit: nothing when a row with this alert_id
\* exists, else the table with the new row.
create_outcome_from_alert(table, alert_id, alert) ==
    IF \E i \in DOMAIN table : table[i].alert_id = alert_id
    THEN table
    ELSE Append(table, NewOutcome(alert_id, alert))

\* lines 496-498: the ids of the alerts sent within the last SYNC_DAYS days.
RecentAlerts(history, t) ==
    SelectSeq(Ids(Len(history)),
              LAMBDA i : history[i].sent_at >= t - (SYNC_DAYS * TicksPerDay))

\* lines 500-510: the loop over recent_alerts from position i on; commits is
\* the number of commits of create_outcome_from_alert that still succeed.
\* A commit that raises leaves the loop through the except of line 517 and
\* its row is not stored.
RECURSIVE SyncLoop(_, _, _, _, _)
SyncLoop(table, history, ids, i, commits) ==
    IF i > Len(ids) THEN table
    ELSE LET created == create_outcome_from_alert(table, ids[i], history[ids[i]])
         IN  IF created = table THEN SyncLoop(table, history, ids, i + 1, commits)
             ELSE IF commits = 0 THEN table
             ELSE SyncLoop(created, history, ids, i + 1, commits - 1)

\* lines 489-518.
sync_alerts_to_outcomes(table, history, t, commits) ==
    SyncLoop(table, history, RecentAlerts(history, t), 1, commits)

\* lines 143-214 as one computation over hist, from sample number i (from 0)
\* on: <<settlement>>.
RECURSIVE WalkFrom(_, _, _, _, _, _, _, _)
WalkFrom(hist, i, entry, long, mg0, md0, active0, level0) ==
    IF i >= Len(hist)
    THEN <<Settlement(SampleGains(hist[Len(hist)], entry, long).close,
                      "end_of_data", mg0, md0, Len(hist) * SAMPLE_MINUTES)>>
    ELSE LET g == SampleGains(hist[i + 1], entry, long)
             mg == Max(mg0, g.high)
             md == Min(md0, g.low)
             activate == mg >= TRAILING_STOP_TRIGGER * entry /\ ~active0
             active == active0 \/ activate
             level1 == IF activate THEN 0 ELSE level0
             level == IF active THEN Max(level1, mg - TRAILING_GAP * entry) ELSE level1
             exit == ExitOf(i, g, entry, mg, md, active, level)
         IN  IF IsNull(exit)
             THEN WalkFrom(hist, i + 1, entry, long, mg, md, active, level)
             ELSE exit

\* lines 130-133: the samples simulate_trade walks: those of the alert's own
\* window, or those of the most recent day when the window has fewer than two.
HistOf(window, recent_day) == IF Len(window) < 2 THEN recent_day ELSE window
HistSource(window) == IF Len(window) < 2 THEN "recent_day" ELSE "window"

\* lines 124-218: <<settlement>>, or NULL for the None returned when hist is
\* empty or a fetch raises.
simulate_trade(entry, long, window, recent_day, raises) ==
    IF raises \/ HistOf(window, recent_day) = <<>> THEN NULL
    ELSE WalkFrom(HistOf(window, recent_day), 0, entry, long, 0, 0, FALSE,
                  STOP_LOSS_PCT * entry)

\* line 288.
is_buy_signal(o) == o.alert_type \in UpTypes

\* The entry price moved in the trader's favour (not what the code does).
EntrySlippageFavourable(o) ==
    IF is_buy_signal(o)
    THEN (o.alert_price * (1000 - SLIPPAGE_PER_MILLE)) \div 1000
    ELSE (o.alert_price * (1000 + SLIPPAGE_PER_MILLE)) \div 1000

\* lines 291-294: alert_price * (1 +- SLIPPAGE_PCT / 100); exact for the
\* alert prices used, which are multiples of 200.
effective_entry_price(o) ==
    IF is_buy_signal(o)
    THEN (o.alert_price * (1000 + SLIPPAGE_PER_MILLE)) \div 1000
    ELSE (o.alert_price * (1000 - SLIPPAGE_PER_MILLE)) \div 1000

\* lines 296-308: the first close of the 5-minute bars around the offset, or
\* the current price when there is none or the fetch raises.
get_historical_price_at_offset(feed) ==
    IF IsNull(feed.close_at) THEN feed.current[1] ELSE feed.close_at[1]

\* lines 314, 323, 332: the profit in percent, as a quotient.
ProfitOf(o, p) ==
    IF is_buy_signal(o)
    THEN Ratio((p - effective_entry_price(o)) * 100, effective_entry_price(o))
    ELSE Ratio((effective_entry_price(o) - p) * 100, effective_entry_price(o))

\* A horizon written again although its checked flag is set (not what the
\* code does).
HorizonRewritten(o, feed, t, hours, price_f, profit_f, checked_f) ==
    IF t - o.alert_time >= hours * TicksPerHour /\ get_historical_price_at_offset(feed) # 0
    THEN [o EXCEPT ![price_f] = <<get_historical_price_at_offset(feed)>>,
                   ![profit_f] = <<ProfitOf(o, get_historical_price_at_offset(feed))>>,
                   ![checked_f] = TRUE]
    ELSE o

\* lines 310-336: one of the three horizon blocks.
Horizon(o, feed, t, hours, price_f, profit_f, checked_f) ==
    IF /\ t - o.alert_time >= hours * TicksPerHour
       /\ ~o[checked_f]
       /\ get_historical_price_at_offset(feed) # 0
    THEN [o EXCEPT ![price_f] = <<get_historical_price_at_offset(feed)>>,
                   ![profit_f] = <<ProfitOf(o, get_historical_price_at_offset(feed))>>,
                   ![checked_f] = TRUE]
    ELSE o

\* lines 338-353: whether this pass simulates the trade of o, and its result.
TradeDue(o, t) ==
    t - o.alert_time >= MAX_HOLD_HOURS * TicksPerHour /\ ~o.trade_checked

TradeOf(o, feed) ==
    simulate_trade(effective_entry_price(o), is_buy_signal(o), feed.window,
                   feed.recent_day, feed.raises)

TradeUpdate(o, feed, t) ==
    IF TradeDue(o, t) /\ ~IsNull(TradeOf(o, feed))
    THEN [o EXCEPT !.trade_result = <<Ratio(TradeOf(o, feed)[1].result, effective_entry_price(o))>>,
                   !.trade_exit_reason = <<TradeOf(o, feed)[1].exit_reason>>,
                   !.trade_max_gain = <<Ratio(TradeOf(o, feed)[1].max_gain, effective_entry_price(o))>>,
                   !.trade_max_drawdown = <<Ratio(TradeOf(o, feed)[1].max_drawdown, effective_entry_price(o))>>,
                   !.trade_hold_minutes = <<TradeOf(o, feed)[1].hold_minutes>>,
                   !.trade_checked = TRUE]
    ELSE o

\* The body of the loop filling only the longest horizon that is due (not
\* what the code does).
CheckOutcomeLongestOnly(o, feed, t) ==
    IF IsNull(feed.current) THEN o
    ELSE TradeUpdate(
             IF t - o.alert_time >= 24 * TicksPerHour
             THEN Horizon(o, feed, t, 24, "price_24h", "profit_24h", "checked_24h")
             ELSE IF t - o.alert_time >= 4 * TicksPerHour
             THEN Horizon(o, feed, t, 4, "price_4h", "profit_4h", "checked_4h")
             ELSE Horizon(o, feed, t, 1, "price_1h", "profit_1h", "checked_1h"),
             feed, t)

\* lines 272-353: the body of the loop for one outcome.
CheckOutcome(o, feed, t) ==
    IF IsNull(feed.current) THEN o
    ELSE TradeUpdate(
             Horizon(
                 Horizon(
                     Horizon(o, feed, t, 1, "price_1h", "profit_1h", "checked_1h"),
                     feed, t, 4, "price_4h", "profit_4h", "checked_4h"),
                 feed, t, 24, "price_24h", "profit_24h", "checked_24h"),
             feed, t)

\* lines 227-229: the rows a pass looks at.
outcomes_to_check(table) == {i \in DOMAIN table : ~table[i].checked_24h}

\* lines 270-353: the table after the loop, feeds giving what yfinance
\* returns for each symbol during the pass.
CheckedTable(table, feeds, t) ==
    [i \in DOMAIN table |->
        IF i \in outcomes_to_check(table)
        THEN CheckOutcome(table[i], feeds[table[i].symbol], t)
        ELSE table[i]]

----------------------------------------------------------------------------
(* backtest.py, calc_stats inside generate_report.                         *)

\* [o.<field> for o in outcomes_list if o.<field> is not None]
Column(rows, field) ==
    LET kept == SelectSeq(rows, LAMBDA o : ~IsNull(o[field]))
    IN  [i \in 1..Len(kept) |-> kept[i][field][1]]

\* sum() of a list.
RECURSIVE sum(_)
sum(s) == IF s = <<>> THEN 0 ELSE Head(s) + sum(Tail(s))

\* sorted() of a list: ascending order, duplicates kept.
RECURSIVE InsertSorted(_, _)
InsertSorted(x, s) ==
    IF s = <<>> THEN <<x>>
    ELSE IF x <= Head(s) THEN <<x>> \o s
    ELSE <<Head(s)>> \o InsertSorted(x, Tail(s))

RECURSIVE sorted(_)
sorted(s) == IF s = <<>> THEN <<>> ELSE InsertSorted(Head(s), sorted(Tail(s)))

\* lines 390-392 and 401: sum(xs) / len(xs) if xs else 0.
Average(xs) == IF xs = <<>> THEN Ratio(0, 1) ELSE Ratio(sum(xs), Len(xs))

MedianLowerMiddle(xs) ==
    IF xs = <<>> THEN 0 ELSE sorted(xs)[((Len(xs) - 1) \div 2) + 1]

\* lines 394-395: sorted_24h[len(sorted_24h) // 2] if sorted_24h else 0; the
\* index of the program counts from 0, a sequence here counts from 1.
Median(xs) ==
    IF xs = <<>> THEN 0 ELSE sorted(xs)[(Len(xs) \div 2) + 1]

WinRateNonNegative(xs) ==
    IF xs = <<>> THEN Ratio(0, 1)
    ELSE Ratio(Len(SelectSeq(xs, LAMBDA p : p >= 0)) * 100, Len(xs))

\* lines 397-399 and 402: len([p for p in xs if p > 0]) / len(xs) * 100 if xs
\* else 0.
WinRate(xs) ==
    IF xs = <<>> THEN Ratio(0, 1)
    ELSE Ratio(Len(SelectSeq(xs, LAMBDA p : p > 0)) * 100, Len(xs))

\* lines 404-406: len([o for o in outcomes_list if o.trade_exit_reason == r]).
ExitCount(rows, reason) ==
    Len(SelectSeq(rows, LAMBDA o : o.trade_exit_reason = <<reason>>))

\* lines 378-422.
calc_stats(rows) ==
    IF rows = <<>>
    THEN [count |-> 0,
          avg_1h |-> Ratio(0, 1), avg_4h |-> Ratio(0, 1), avg_24h |-> Ratio(0, 1),
          win_rate_1h |-> Ratio(0, 1), win_rate_4h |-> Ratio(0, 1),
          win_rate_24h |-> Ratio(0, 1), median_24h |-> 0,
          trade_profit |-> Ratio(0, 1), trade_win_rate |-> Ratio(0, 1),
          take_profits |-> 0, stop_losses |-> 0, trailing_stops |-> 0]
    ELSE LET profits_1h == Column(rows, "profit_1h")
             profits_4h == Column(rows, "profit_4h")
             profits_24h == Column(rows, "profit_24h")
             trade_results == Column(rows, "trade_result")
         IN  [count |-> Len(rows),
              avg_1h |-> Average(profits_1h),
              avg_4h |-> Average(profits_4h),
              avg_24h |-> Average(profits_24h),
              median_24h |-> Median(profits_24h),
              win_rate_1h |-> WinRate(profits_1h),
              win_rate_4h |-> WinRate(profits_4h),
              win_rate_24h |-> WinRate(profits_24h),
              trade_profit |-> Average(trade_results),
              trade_win_rate |-> WinRate(trade_results),
              take_profits |-> ExitCount(rows, "take_profit"),
              stop_losses |-> ExitCount(rows, "stop_loss"),
              trailing_stops |-> ExitCount(rows, "trailing_stop")]

\* generate_report lines 432-433: sorted(rows, key=trade_result) is stable;
\* with reverse=True equal results keep their order as well.
RANK_SIZE == 5

RECURSIVE InsertByResult(_, _, _)
InsertByResult(o, rows, descending) ==
    IF rows = <<>> THEN <<o>>
    ELSE IF (IF descending THEN o.trade_result[1] >= Head(rows).trade_result[1]
                           ELSE o.trade_result[1] <= Head(rows).trade_result[1])
    THEN <<o>> \o rows
    ELSE <<Head(rows)>> \o InsertByResult(o, Tail(rows), descending)

RECURSIVE SortByResult(_, _)
SortByResult(rows, descending) ==
    IF rows = <<>> THEN <<>>
    ELSE InsertByResult(Head(rows), SortByResult(Tail(rows), descending), descending)

\* [o for o in outcomes if o.trade_result]: None and 0.0 are both falsy.
Ranked(rows) ==
    SelectSeq(rows, LAMBDA o : ~IsNull(o.trade_result) /\ o.trade_result[1] # 0)

\* line 432.
BestTrades(rows) ==
    SubSeq(SortByResult(Ranked(rows), TRUE), 1, Min(RANK_SIZE, Len(Ranked(rows))))

\* line 433.
WorstTrades(rows) ==
    SubSeq(SortByResult(Ranked(rows), FALSE), 1, Min(RANK_SIZE, Len(Ranked(rows))))

----------------------------------------------------------------------------
(* Specification SpecRotation: a fixed universe with no quarantine, one    *)
(* scheduler run in every 15-minute slot of one UTC day.                   *)

InitRotation ==
    /\ now = 0
    /\ SYMBOLS_PER_RUN \in 1..MaxSymbolsPerRun
    /\ BATCH_SIZE = 1
    /\ \E n \in 1..MaxActive : quarantined_until = [s \in 1..n |-> NULL]
    /\ pc = "idle"
    /\ runs = 0
    /\ total_active = 0
    /\ offset = 0
    /\ stock_symbols = <<>>
    /\ covered = {}
    /\ FetchIdle
    /\ NoOverlap
    /\ stock_prices = {}
    /\ AlertsIdle
    /\ probe = <<>>
    /\ TradeIdle
    /\ BacktestIdle

RotationRun ==
    /\ runs < TicksPerDay
    /\ SelectSlice
    /\ covered' = covered \cup Range(stock_symbols')
    /\ runs' = runs + 1
    /\ now' = now + 1
    /\ UNCHANGED <<cfgVars, quarantined_until, pc, fetchVars, stock_prices, alertVars,
                   probe, tradeVars, outcomeVars,
                   reportVars, overlapping>>

NextRotation == RotationRun

SpecRotation == InitRotation /\ [][NextRotation]_vars

----------------------------------------------------------------------------
(* Specification SpecScrape: scraper runs (__main__ of scrape_prices.py),  *)
(* step by step: fetch, save, quarantine, detection pass. Between two runs *)
(* a quarter hour or a whole quarantine period passes. A universe of       *)
(* QUARANTINE_CAP + 1 symbols under the default configuration is followed  *)
(* for one run, the small universe for MaxRuns runs. A batch size above    *)
(* SYMBOLS_PER_RUN behaves as one equal to it and is left out.             *)

BulkSymbols == QUARANTINE_CAP + 1

\* The first run starts at midnight (slot 0) of the day after the first
\* quarantine period of the clock. Symbol 1 was never quarantined, or was
\* quarantined by a run one period and a quarter hour ago (over since a
\* quarter hour), or by a run one period ago (it ends at this very instant).
StartTime == (QUARANTINE_DAYS + 1) * TicksPerDay
EarlierQuarantine == {NULL, <<StartTime - 1>>, <<StartTime>>}

InitScrape ==
    /\ now = StartTime
    /\ \E n \in {MaxSymbols, BulkSymbols} :
          IF n = BulkSymbols
          THEN /\ SYMBOLS_PER_RUN = DEFAULT_SYMBOLS_PER_RUN
               /\ BATCH_SIZE = DEFAULT_BATCH_SIZE
               /\ quarantined_until = [s \in 1..n |-> NULL]
          ELSE /\ SYMBOLS_PER_RUN \in 1..MaxSymbolsPerRun
               /\ BATCH_SIZE \in 1..Min(MaxBatchSize, SYMBOLS_PER_RUN)
               /\ \E first \in EarlierQuarantine :
                     quarantined_until = [s \in 1..n |-> IF s = 1 THEN first ELSE NULL]
    /\ pc = "idle"
    /\ runs = 0
    /\ total_active = 0
    /\ offset = 0
    /\ stock_symbols = <<>>
    /\ covered = {}
    /\ FetchIdle
    /\ NoOverlap
    /\ stock_prices = {}
    /\ AlertsIdle
    /\ probe = <<>>
    /\ TradeIdle
    /\ BacktestIdle

RunLimit == IF Len(quarantined_until) = BulkSymbols THEN 1 ELSE MaxRuns

\* __main__ line 228
Fetch ==
    /\ pc = "idle"
    /\ fetch_stock_prices
    /\ pc' = "fetched"
    /\ UNCHANGED <<now, cfgVars, quarantined_until, runs, covered, quarantine_committed,
                   db_faults, save_log, stock_prices, alertVars, probe, tradeVars, outcomeVars,
                   reportVars, overlapping>>

\* A failed read of the symbol table after which the detection pass still
\* runs (not what the code does).
FetchRaisesThenDetects ==
    /\ pc = "idle"
    /\ db_faults < MaxFaults
    /\ db_faults' = db_faults + 1
    /\ pc' = "done"
    /\ check_price_alerts
    /\ UNCHANGED <<now, cfgVars, quarantined_until, runs, sliceVars, covered,
                   stock_data, failed_symbols, quarantine_committed, save_log,
                   stock_prices, probe, tradeVars, outcomeVars, reportVars, overlapping>>

\* __main__ lines 257-263: reading the symbol table raises (lines 143-148);
\* stock_data_global is assigned at the end of fetch_stock_prices only (line
\* 183), so the handler has nothing to save and the run is over.
FetchRaises ==
    /\ pc = "idle"
    /\ db_faults < MaxFaults
    /\ db_faults' = db_faults + 1
    /\ pc' = "done"
    /\ UNCHANGED <<now, cfgVars, quarantined_until, runs, sliceVars, covered,
                   stock_data, failed_symbols, quarantine_committed, save_log,
                   stock_prices, alertVars, probe, tradeVars, outcomeVars,
                   reportVars, overlapping>>

\* __main__ line 232
Save ==
    /\ pc = "fetched"
    /\ LET chunks == (Len(stock_data) + SAVE_BATCH_SIZE - 1) \div SAVE_BATCH_SIZE
       IN \E committed \in [1..chunks -> BOOLEAN] :
          \E pruned \in (IF /\ stock_data # <<>>
                            /\ \E r \in stock_prices :
                                  r.timestamp < now - PRUNE_HOURS * TicksPerHour
                         THEN BOOLEAN ELSE {TRUE}) :
             LET raised == Cardinality({c \in 1..chunks : ~committed[c]})
                           + (IF pruned THEN 0 ELSE 1)
             IN /\ db_faults + raised <= MaxFaults
                /\ db_faults' = db_faults + raised
                /\ save_stock_prices(committed, pruned)
                /\ save_log' = [c \in 1..chunks |->
                                   [writes |-> 1, committed |-> committed[c]]]
    /\ pc' = "saved"
    /\ UNCHANGED <<now, cfgVars, quarantined_until, runs, sliceVars, covered,
                   stock_data, failed_symbols, quarantine_committed,
                   alertVars, probe, tradeVars, outcomeVars,
                   reportVars, overlapping>>

\* __main__ lines 235-238
Quarantine ==
    /\ pc = "saved"
    /\ \E ok \in (IF failed_symbols = <<>> THEN {FALSE} ELSE BOOLEAN) :
          LET raised == IF failed_symbols # <<>> /\ ~ok THEN 1 ELSE 0
          IN /\ db_faults + raised <= MaxFaults
             /\ db_faults' = db_faults + raised
             /\ quarantine_symbols(failed_symbols, ok)
    /\ pc' = "quarantined"
    /\ UNCHANGED <<now, cfgVars, runs, sliceVars, covered, stock_data, failed_symbols,
                   save_log, stock_prices, alertVars, probe, tradeVars, outcomeVars,
                   reportVars, overlapping>>

\* __main__ lines 240-252
RunAlerts ==
    /\ pc = "quarantined"
    /\ check_price_alerts
    /\ pc' = "done"
    /\ UNCHANGED <<now, cfgVars, quarantined_until, runs, sliceVars, covered, fetchVars,
                   stock_prices, probe, tradeVars, outcomeVars,
                   reportVars, overlapping>>

\* The process ends; the next run starts a quarter hour later, or a quarantine
\* period later. At most limit runs are followed.
StartNextRun(limit) ==
    /\ pc = "done"
    /\ runs + 1 < limit
    /\ runs' = runs + 1
    /\ \E elapsed \in {1, QUARANTINE_DAYS * TicksPerDay} : now' = now + elapsed
    /\ pc' = "idle"
    /\ stock_data' = <<>>
    /\ failed_symbols' = <<>>
    /\ quarantine_committed' = FALSE
    /\ save_log' = <<>>
    /\ UNCHANGED db_faults
    /\ candidates' = <<>>
    /\ attempted' = <<>>
    /\ alerts_sent' = 0
    /\ hist_before' = 0
    /\ pass_ran' = FALSE
    /\ pass_raised' = FALSE
    /\ UNCHANGED <<cfgVars, quarantined_until, sliceVars, covered, stock_prices,
                   alerts_config, alert_history, send_log, probe, tradeVars, outcomeVars,
                   reportVars, overlapping>>

NextRun == StartNextRun(RunLimit)

NextScrape == Fetch \/ FetchRaises \/ Save \/ Quarantine \/ RunAlerts \/ NextRun

SpecScrape == InitScrape /\ [][NextScrape]_vars

\* The steps of __main__ follow one another without waiting: once the save
\* has returned, the quarantine step and the detection pass are executed.
SpecScrapeLive == SpecScrape /\ WF_vars(Quarantine) /\ WF_vars(RunAlerts)

----------------------------------------------------------------------------
(* Specification SpecAlerts: detection passes over a price table that the  *)
(* scraper keeps extending, one hour of wall clock at a time. The table    *)
(* starts with one row per symbol; symbol 1 may be listed on two exchanges *)
(* (models.py:13) and then has two rows with one timestamp.                *)

\* The symbols of the price table: 1 (possibly on two exchanges) and 2.
AlertSymbols == {1, 2}

\* The quotes a fetch can return: the base price on the base volume, or a
\* price 20% higher on four times the volume.
AlertQuotes ==
    {[price |-> 100, volume |-> <<10>>], [price |-> 120, volume |-> <<40>>]}

InitAlerts ==
    /\ now = LOOKBACK_HOURS * TicksPerHour
    /\ SYMBOLS_PER_RUN = 1
    /\ BATCH_SIZE = 1
    /\ quarantined_until = [s \in AlertSymbols |-> NULL]
    /\ pc = "idle"
    /\ runs = 0
    /\ total_active = 0
    /\ offset = 0
    /\ stock_symbols = <<>>
    /\ covered = {}
    /\ FetchIdle
    /\ NoOverlap
    /\ \E dual \in BOOLEAN :
          stock_prices =
              {[symbol |-> s, price |-> 100, volume |-> <<10>>, timestamp |-> 0] :
                  s \in AlertSymbols}
              \cup (IF dual
                    THEN {[symbol |-> 1, price |-> 120, volume |-> <<10>>, timestamp |-> 0]}
                    ELSE {})
    /\ AlertsIdle
    /\ probe = <<>>
    /\ TradeIdle
    /\ BacktestIdle

\* save_stock_prices lines 198-203: a scraper run adds the rows it fetched,
\* one per symbol of its slice, each stamped with the time of the run. The
\* quote of a symbol that is fetched again has moved.
Observe ==
    /\ pc = "idle"
    /\ \E S \in SUBSET (1..Len(quarantined_until)) :
       \E q \in [S -> AlertQuotes] :
          LET rows == {[symbol |-> s, price |-> q[s].price,
                        volume |-> q[s].volume, timestamp |-> now] : s \in S}
          IN /\ S # {}
             /\ \A s \in S : \E r \in LatestRows(stock_prices) :
                    r.symbol = s /\ r.price # q[s].price
             /\ Cardinality({r \in stock_prices : r.timestamp > 0}) + Cardinality(S)
                    <= MaxObserve
             /\ stock_prices' = stock_prices \cup rows
    /\ pc' = "saved"
    /\ UNCHANGED <<now, cfgVars, quarantined_until, runs, sliceVars, covered, fetchVars,
                   alertVars, probe, tradeVars, outcomeVars,
                   reportVars, overlapping>>

\* scrape_prices.py lines 240-248: the run ends with one detection pass.
DetectionPass ==
    /\ pc \in {"idle", "saved"}
    /\ check_price_alerts
    /\ pc' = "done"
    /\ UNCHANGED <<now, cfgVars, quarantined_until, runs, sliceVars, covered, fetchVars,
                   stock_prices, probe, tradeVars, outcomeVars,
                   reportVars, overlapping>>

\* One hour passes between two runs; the locals of the pass are gone.
AlertTick ==
    /\ now + TicksPerHour <= AlertHorizon
    /\ now' = now + TicksPerHour
    /\ pc' = "idle"
    /\ candidates' = <<>>
    /\ attempted' = <<>>
    /\ alerts_sent' = 0
    /\ hist_before' = 0
    /\ pass_ran' = FALSE
    /\ pass_raised' = FALSE
    /\ UNCHANGED <<cfgVars, quarantined_until, runs, sliceVars, covered, fetchVars,
                   stock_prices, alerts_config, alert_history, send_log, probe, tradeVars, outcomeVars,
                   reportVars, overlapping>>

NextAlerts == Observe \/ AlertTick \/ DetectionPass

SpecAlerts == InitAlerts /\ [][NextAlerts]_vars

----------------------------------------------------------------------------
(* Specification SpecClassify: the per-symbol loop body of                 *)
(* check_price_alerts applied to one symbol, over a grid of inputs.        *)

ProbeInputs ==
    [current_price : {84, 85, 96, 97, 98, 100, 102, 103, 104, 115, 116},
     current_volume : {NULL, <<10>>, <<19>>, <<20>>, <<40>>},
     historical_price : {NULL, <<100>>},
     avg_vol : {NULL, <<[sum |-> 10, cnt |-> 1]>>, <<[sum |-> 25, cnt |-> 2]>>},
     threshold : {DEFAULT_THRESHOLD_PERCENT, 5, 20},
     in_cooldown : BOOLEAN]

InitClassify ==
    /\ now = 0
    /\ SYMBOLS_PER_RUN = 1
    /\ BATCH_SIZE = 1
    /\ quarantined_until = <<NULL>>
    /\ pc = "idle"
    /\ runs = 0
    /\ total_active = 0
    /\ offset = 0
    /\ stock_symbols = <<>>
    /\ covered = {}
    /\ FetchIdle
    /\ NoOverlap
    /\ stock_prices = {}
    /\ AlertsIdle
    /\ probe \in ProbeInputs
    /\ TradeIdle
    /\ BacktestIdle

\* lines 235-290 for the symbol described by probe.
ClassifySymbol ==
    /\ ~pass_ran
    /\ pass_ran' = TRUE
    /\ candidates' = CandidateOf(1, probe.current_price, probe.current_volume,
                                 probe.historical_price, probe.avg_vol,
                                 probe.threshold, probe.in_cooldown)
    /\ UNCHANGED <<now, scrapeVars, stock_prices, alerts_config, alert_history,
                   send_log, attempted, alerts_sent, hist_before, pass_raised, probe, tradeVars, outcomeVars,
                   reportVars, overlapping>>

NextClassify == ClassifySymbol

SpecClassify == InitClassify /\ [][NextClassify]_vars

----------------------------------------------------------------------------
(* Specification SpecTrade: simulate_trade walking a 5-minute path sample  *)
(* by sample, for a long and for a short entry at 1000. The price levels   *)
(* are -4%, -3%, -1%, 0, +1%, +3% and +4% of the entry; a sample has       *)
(* low <= close <= high.                                                   *)

EntryPrices == {1000}
PriceLevels == {960, 970, 990, 1000, 1010, 1030, 1040}

Samples ==
    {s \in [high : PriceLevels, low : PriceLevels, close : PriceLevels] :
        s.low <= s.close /\ s.close <= s.high}

InitTrade ==
    /\ now = 0
    /\ SYMBOLS_PER_RUN = 1
    /\ BATCH_SIZE = 1
    /\ quarantined_until = <<NULL>>
    /\ pc = "idle"
    /\ runs = 0
    /\ total_active = 0
    /\ offset = 0
    /\ stock_symbols = <<>>
    /\ covered = {}
    /\ FetchIdle
    /\ NoOverlap
    /\ stock_prices = {}
    /\ AlertsIdle
    /\ probe = <<>>
    /\ entry_price \in EntryPrices
    /\ is_long \in BOOLEAN
    /\ trade_pc = "walk"
    /\ trade_i = 0
    /\ row = NULL
    /\ max_gain = 0
    /\ max_drawdown = 0
    /\ trailing_stop_active = FALSE
    /\ trailing_stop_level = STOP_LOSS_PCT * entry_price
    /\ trade = NULL
    /\ BacktestIdle

\* lines 135-136 and 216-218: no sample at all, or the fetch raises:
\* simulate_trade returns None.
TradeNoData ==
    /\ trade_pc = "walk"
    /\ trade_i = 0
    /\ trade_pc' = "none"
    /\ UNCHANGED <<now, scrapeVars, stock_prices, alertVars, probe, entry_price,
                   is_long, walkVars, trade, outcomeVars, reportVars, overlapping>>

TradeSample ==
    /\ trade_pc = "walk"
    /\ \E sample \in Samples : WalkSample(sample)
    /\ UNCHANGED <<now, scrapeVars, stock_prices, alertVars, probe, entry_price,
                   is_long, outcomeVars, reportVars, overlapping>>

TradeEndOfData ==
    /\ trade_pc = "walk"
    /\ trade_i > 0
    /\ EndOfData
    /\ UNCHANGED <<now, scrapeVars, stock_prices, alertVars, probe, entry_price,
                   is_long, walkVars, outcomeVars, reportVars, overlapping>>

NextTrade == TradeNoData \/ TradeSample \/ TradeEndOfData

SpecTrade == InitTrade /\ [][NextTrade]_vars

----------------------------------------------------------------------------
(* Specification SpecOutcomes: `backtest.py check` run again and again     *)
(* over alerts that were all sent at time 0, one per symbol, at the price  *)
(* 1000. A run is sync_alerts_to_outcomes followed by check_outcomes.      *)

\* The numbers of alerts in alert_history.
AlertCounts == {1, 2}

OutcomeAlertTypes == {"extreme_up", "extreme_down"}

\* The times of the runs: 1, 4, 24 and 48 hours after the alerts, and one
\* hour after the alerts have left the window of the sync.
CheckTimes ==
    { TicksPerHour, 4 * TicksPerHour, MAX_HOLD_HOURS * TicksPerHour,
      2 * MAX_HOLD_HOURS * TicksPerHour, (SYNC_DAYS * TicksPerDay) + TicksPerHour }

FlatSample == [high |-> 1010, low |-> 1000, close |-> 1005]
UpSample == [high |-> 1040, low |-> 1005, close |-> 1040]

\* What yfinance returns for one symbol during one pass: the last close of
\* the batch download (current), the close at a horizon (close_at), the
\* 5-minute bars of the alert's own window and those of the most recent day,
\* and whether the history request of simulate_trade raises.
Feeds ==
    { [current |-> <<1010>>, close_at |-> <<1030>>, window |-> <<FlatSample, UpSample>>,
       recent_day |-> <<FlatSample>>, raises |-> FALSE],
      [current |-> NULL, close_at |-> <<1030>>, window |-> <<FlatSample, UpSample>>,
       recent_day |-> <<FlatSample>>, raises |-> FALSE],
      [current |-> <<1010>>, close_at |-> NULL, window |-> <<>>,
       recent_day |-> <<>>, raises |-> FALSE],
      [current |-> <<1010>>, close_at |-> NULL, window |-> <<FlatSample>>,
       recent_day |-> <<FlatSample, FlatSample>>, raises |-> FALSE],
      [current |-> <<1010>>, close_at |-> <<1030>>, window |-> <<FlatSample, UpSample>>,
       recent_day |-> <<FlatSample>>, raises |-> TRUE] }

InitOutcomes ==
    /\ now = 0
    /\ SYMBOLS_PER_RUN = 1
    /\ BATCH_SIZE = 1
    /\ quarantined_until = <<NULL>>
    /\ pc = "idle"
    /\ runs = 0
    /\ total_active = 0
    /\ offset = 0
    /\ stock_symbols = <<>>
    /\ covered = {}
    /\ FetchIdle
    /\ NoOverlap
    /\ stock_prices = {}
    /\ alerts_config = <<>>
    /\ \E n \in AlertCounts : \E types \in [1..n -> OutcomeAlertTypes] :
          alert_history = [i \in 1..n |->
              [symbol |-> i, alert_type |-> types[i], price_before |-> 800,
               price_after |-> 1000, sent_at |-> 0]]
    /\ send_log = {}
    /\ candidates = <<>>
    /\ attempted = <<>>
    /\ alerts_sent = 0
    /\ hist_before = 0
    /\ pass_ran = FALSE
    /\ pass_raised = FALSE
    /\ probe = <<>>
    /\ TradeIdle
    /\ alert_outcomes = <<>>
    /\ backtest_pc = "idle"
    /\ settled_from = <<>>
    /\ outcomes_list = <<>>
    /\ stats = NULL
    /\ best = <<>>
    /\ worst = <<>>

\* A sync that deletes the AlertHistory rows it has turned into outcomes (not
\* what the code does).
SyncAlertsConsumes ==
    /\ backtest_pc = "idle"
    /\ alert_outcomes' = sync_alerts_to_outcomes(alert_outcomes, alert_history, now,
                                                 Len(alert_history))
    /\ settled_from' = settled_from \o
           [k \in 1..(Len(alert_outcomes') - Len(alert_outcomes)) |-> "none"]
    /\ backtest_pc' = "synced"
    /\ alert_history' = <<>>
    /\ UNCHANGED <<now, scrapeVars, stock_prices, alerts_config, send_log, passVars,
                   probe, tradeVars, reportVars, overlapping>>

\* __main__, lines 527 and 559: sync_alerts_to_outcomes. When a commit raises,
\* the sync prints and returns; the session has then a failed transaction and
\* check_outcomes either raises on its first query, which ends the run, or
\* runs on the rolled-back session.
SyncAlerts ==
    /\ backtest_pc = "idle"
    /\ \E commits \in 0..Len(alert_history) :
          LET synced == sync_alerts_to_outcomes(alert_outcomes, alert_history, now, commits)
              whole == sync_alerts_to_outcomes(alert_outcomes, alert_history, now,
                                              Len(alert_history))
          IN  /\ alert_outcomes' = synced
              /\ settled_from' = settled_from \o
                     [k \in 1..(Len(synced) - Len(alert_outcomes)) |-> "none"]
              /\ IF synced = whole
                 THEN backtest_pc' = "synced"
                 ELSE backtest_pc' = "sync_failed"
    /\ UNCHANGED <<now, scrapeVars, stock_prices, alertVars, probe, tradeVars,
                   reportVars, overlapping>>

\* __main__, lines 528 and 560: check_outcomes, lines 221-356. The pass
\* returns early when no row is left to check or when the batch download
\* raises; the commit of line 355 stores all changes of the pass or, when it
\* raises, none.
CheckOutcomes ==
    /\ backtest_pc \in {"synced", "sync_failed"}
    /\ backtest_pc' = "checked"
    /\ \/ /\ outcomes_to_check(alert_outcomes) = {}
          /\ UNCHANGED <<alert_outcomes, settled_from>>
       \/ /\ outcomes_to_check(alert_outcomes) # {}
          /\ UNCHANGED <<alert_outcomes, settled_from>>
       \/ /\ outcomes_to_check(alert_outcomes) # {}
          /\ \E feeds \in [{alert_outcomes[i].symbol : i \in outcomes_to_check(alert_outcomes)} -> Feeds] :
                LET checked == CheckedTable(alert_outcomes, feeds, now)
                IN  /\ alert_outcomes' = checked
                    /\ settled_from' =
                          [i \in DOMAIN alert_outcomes |->
                              IF checked[i].trade_checked /\ ~alert_outcomes[i].trade_checked
                              THEN HistSource(feeds[alert_outcomes[i].symbol].window)
                              ELSE settled_from[i]]
    /\ UNCHANGED <<now, scrapeVars, stock_prices, alertVars, probe, tradeVars,
                   reportVars, overlapping>>

\* The scheduler starts the next run at a later time.
BacktestTick ==
    /\ backtest_pc \in {"idle", "sync_failed", "checked"}
    /\ \E t \in CheckTimes : t > now /\ now' = t
    /\ backtest_pc' = "idle"
    /\ UNCHANGED <<scrapeVars, stock_prices, alertVars, probe, tradeVars,
                   alert_outcomes, settled_from, reportVars, overlapping>>

NextOutcomes == SyncAlerts \/ CheckOutcomes \/ BacktestTick

SpecOutcomes == InitOutcomes /\ [][NextOutcomes]_vars

----------------------------------------------------------------------------
(* Specification SpecReport: calc_stats applied to a list of completed     *)
(* outcomes. Every row carries the three horizon profits, which a row with *)
(* checked_24h set always has; the trade columns are empty for a row whose *)
(* simulation returned nothing. Profits are whole percents.                *)

MaxOutcomes == 3

ReportRow(p1, p4, p24, result, reason) == [profit_1h |-> <<p1>>, profit_4h |-> <<p4>>, profit_24h |-> <<p24>>, trade_result |-> result, trade_exit_reason |-> reason]

ReportRows ==
    { ReportRow(5, 5, 5, <<3>>, <<"take_profit">>),
      ReportRow(-2, -2, -2, <<-3>>, <<"stop_loss">>),
      ReportRow(1, 0, 1, NULL, NULL),
      ReportRow(0, 1, 0, <<0>>, <<"timeout">>),
      ReportRow(1, -2, -4, <<1>>, <<"trailing_stop">>),
      ReportRow(0, 5, 7, <<2>>, <<"end_of_data">>) }

\* Lists longer than RANK_SIZE: the six rows and two of them once more, in
\* every rotation.
LongRows ==
    << ReportRow(5, 5, 5, <<3>>, <<"take_profit">>),
       ReportRow(0, 1, 0, <<0>>, <<"timeout">>),
       ReportRow(-2, -2, -2, <<-3>>, <<"stop_loss">>),
       ReportRow(1, -2, -4, <<1>>, <<"trailing_stop">>),
       ReportRow(1, 0, 1, NULL, NULL),
       ReportRow(0, 5, 7, <<2>>, <<"end_of_data">>),
       ReportRow(5, 5, 5, <<3>>, <<"take_profit">>),
       ReportRow(-2, -2, -2, <<-3>>, <<"stop_loss">>) >>

LongReports ==
    {[i \in 1..Len(LongRows) |-> LongRows[((i + k) % Len(LongRows)) + 1]] :
        k \in 1..Len(LongRows)}

InitReport ==
    /\ now = 0
    /\ SYMBOLS_PER_RUN = 1
    /\ BATCH_SIZE = 1
    /\ quarantined_until = <<NULL>>
    /\ pc = "idle"
    /\ runs = 0
    /\ total_active = 0
    /\ offset = 0
    /\ stock_symbols = <<>>
    /\ covered = {}
    /\ FetchIdle
    /\ NoOverlap
    /\ stock_prices = {}
    /\ AlertsIdle
    /\ probe = <<>>
    /\ TradeIdle
    /\ alert_outcomes = <<>>
    /\ backtest_pc = "idle"
    /\ settled_from = <<>>
    /\ \/ \E n \in 0..MaxOutcomes : outcomes_list \in [1..n -> ReportRows]
       \/ outcomes_list \in LongReports
    /\ stats = NULL
    /\ best = <<>>
    /\ worst = <<>>

\* lines 378-433: calc_stats over all outcomes and the two rankings.
CalcStats ==
    /\ stats = NULL
    /\ stats' = <<calc_stats(outcomes_list)>>
    /\ best' = BestTrades(outcomes_list)
    /\ worst' = WorstTrades(outcomes_list)
    /\ UNCHANGED <<now, scrapeVars, stock_prices, alertVars, probe, tradeVars,
                   outcomeVars, outcomes_list, overlapping>>

NextReport == CalcStats

SpecReport == InitReport /\ [][NextReport]_vars

----------------------------------------------------------------------------
(* Claims about the rotation scheduler (SpecRotation) *)

\* C1 (as stated): the slice of every run holds at least
\* min(SYMBOLS_PER_RUN, activeCount) symbols, the window wrapping around to
\* the start of the active list when it runs past the end.
C1_SliceAtLeastMin ==
    runs > 0 => Len(stock_symbols) >= Min(SYMBOLS_PER_RUN, total_active)

\* C1 (amended): the slice of every run holds exactly
\* min(SYMBOLS_PER_RUN, activeCount - (offset mod activeCount)) symbols, at
\* least one, in list order: the window is cut at the end of the active list
\* and does not wrap around.
C1_SliceTruncated ==
    runs > 0 =>
        /\ Len(stock_symbols) = Min(SYMBOLS_PER_RUN, total_active - offset)
        /\ Len(stock_symbols) >= 1
        /\ \A i \in 1..Len(stock_symbols) : stock_symbols[i] > offset
        /\ \A i, j \in 1..Len(stock_symbols) :
               i < j => stock_symbols[i] < stock_symbols[j]

\* Witness of C1: a run whose window runs past the end of the active list and
\* returns fewer than min(SYMBOLS_PER_RUN, activeCount) symbols.
C1_WindowPastEnd ==
    /\ runs > 0
    /\ offset + SYMBOLS_PER_RUN > total_active
    /\ Len(stock_symbols) = total_active - offset
    /\ Len(stock_symbols) < Min(SYMBOLS_PER_RUN, total_active)

\* C2 (as stated): after one run in every slot 0..95 of a day, every active
\* symbol has been in at least one slice, for every active-set size.
C2_FullCycleCoversAll ==
    runs = TicksPerDay => covered = 1..Len(quarantined_until)

----------------------------------------------------------------------------
(* Claims about quarantine (SpecScrape) *)

\* Whether the quarantine of symbol s is over, or was never set, at time t.
Selectable(s, t) == IsNull(quarantined_until[s]) \/ quarantined_until[s][1] < t

\* C3: a symbol whose quarantined_until is set and not earlier than now is in
\* no slice; a symbol whose quarantined_until is earlier than now counts as
\* active again although the field still holds the old value.
C3_QuarantineFilter ==
    pc \in {"fetched", "saved"} =>
        /\ \A i \in DOMAIN stock_symbols : Selectable(stock_symbols[i], now)
        /\ total_active =
              Cardinality({s \in DOMAIN quarantined_until : Selectable(s, now)})

\* Witness of C3: a run selected a symbol whose quarantined_until is still
\* set and lies in the past.
C3_ExpiredSelectedAgain ==
    /\ pc = "fetched"
    /\ \E i \in DOMAIN stock_symbols :
          /\ ~IsNull(quarantined_until[stock_symbols[i]])
          /\ quarantined_until[stock_symbols[i]][1] < now

\* The value quarantine_symbols writes in a run at time now.
QuarantineEnd == <<now + QUARANTINE_DAYS * TicksPerDay>>

\* C4 (as stated): after a run whose quarantine update committed, every symbol
\* that failed in the run has quarantined_until = time of the run +
\* QUARANTINE_DAYS, however many failed.
C4_EveryFailedQuarantined ==
    (pc = "quarantined" /\ quarantine_committed) =>
        \A i \in DOMAIN failed_symbols :
            quarantined_until[failed_symbols[i]] = QuarantineEnd

\* C4 (amended): after the quarantine step of a run, a failed symbol has
\* quarantined_until = time of the run + QUARANTINE_DAYS exactly when the
\* update committed and the symbol is among the first 50 failed symbols of the
\* run, in fetch order.
C4_FirstFiftyQuarantined ==
    pc = "quarantined" =>
        \A i \in DOMAIN failed_symbols :
            (quarantined_until[failed_symbols[i]] = QuarantineEnd)
                <=> (quarantine_committed /\ i <= QUARANTINE_CAP)

\* Witness of C4: more than 50 symbols failed in a run whose quarantine update
\* committed, and the 51st is not quarantined.
C4_FiftyFirstLeftActive ==
    /\ pc = "quarantined" /\ quarantine_committed
    /\ Len(failed_symbols) > QUARANTINE_CAP
    /\ quarantined_until[failed_symbols[QUARANTINE_CAP + 1]] # QuarantineEnd
    /\ quarantined_until[failed_symbols[QUARANTINE_CAP]] = QuarantineEnd

----------------------------------------------------------------------------
(* Claims about the time budget of a scraper run (SpecScrape) *)

\* The symbols of the slice the batch loop got to, in fetch order.
AttemptedCount == Len(stock_data) + Len(failed_symbols)
StoppedEarly == AttemptedCount < Len(stock_symbols)

\* The stock_prices row of the i-th observation of the run.
ObservationRow(i) ==
    [symbol |-> stock_data[i].symbol, price |-> stock_data[i].price,
     volume |-> stock_data[i].volume, timestamp |-> now]

\* C20: the batch loop stops at a batch boundary and skips every batch after
\* it, and the observations of the batches before it are in stock_prices
\* after the save of that run (as long as no database operation raised).
C20_PartialSlicePersisted ==
    /\ pc \in {"fetched", "saved", "quarantined", "done"} =>
          /\ AttemptedCount <= Len(stock_symbols)
          /\ StoppedEarly => AttemptedCount % BATCH_SIZE = 0
          /\ {stock_data[i].symbol : i \in DOMAIN stock_data} \cup Range(failed_symbols)
                = {stock_symbols[i] : i \in 1..AttemptedCount}
    /\ (pc \in {"saved", "quarantined", "done"} /\ db_faults = 0) =>
          \A i \in DOMAIN stock_data : ObservationRow(i) \in stock_prices

\* Witness of C20: a run that skipped a batch has saved the observation of
\* an earlier batch.
C20_StoppedAfterFirstBatch ==
    /\ pc = "saved" /\ db_faults = 0
    /\ StoppedEarly
    /\ stock_data # <<>>
    /\ \A i \in DOMAIN stock_data : ObservationRow(i) \in stock_prices

----------------------------------------------------------------------------
(* Claims about check_price_alerts (SpecAlerts, SpecClassify) *)


\* The rows of alert_history created by the last pass.
NewEvents == {i \in DOMAIN alert_history : i > hist_before}

\* Whether the latest and the lookback rows of s can give an extreme move.
MovesExtremely(s) ==
    \E cur \in LatestRows(stock_prices),
       old \in LatestRows({r \in stock_prices :
                              r.timestamp <= now - LOOKBACK_HOURS * TicksPerHour}) :
        /\ cur.symbol = s /\ old.symbol = s
        /\ Abs(PercentChangeNum(cur.price, old.price)) >= EXTREME_PCT * old.price

\* C5: once an AlertEvent exists for a symbol, no later pass that starts less
\* than ALERT_COOLDOWN_HOURS after its sent_at creates an AlertEvent or
\* attempts a notification for that symbol; two AlertEvents of one symbol are
\* at least ALERT_COOLDOWN_HOURS apart.
C5_CooldownGate ==
    /\ \A i, j \in DOMAIN alert_history :
          (i < j /\ alert_history[i].symbol = alert_history[j].symbol)
              => alert_history[j].sent_at - alert_history[i].sent_at >= CooldownTicks
    /\ \A i \in DOMAIN alert_history : \A a \in send_log :
          (a.symbol = alert_history[i].symbol /\ a.at > alert_history[i].sent_at)
              => a.at - alert_history[i].sent_at >= CooldownTicks

\* Witness of C5: a pass ran to its end inside the cooldown of an earlier
\* AlertEvent of a symbol whose move is extreme again, and attempted nothing
\* for that symbol.
C5_SuppressedInCooldown ==
    /\ pc = "done" /\ pass_ran /\ ~pass_raised
    /\ \E i \in DOMAIN alert_history :
          /\ alert_history[i].sent_at < now
          /\ now - alert_history[i].sent_at < CooldownTicks
          /\ MovesExtremely(alert_history[i].symbol)
          /\ alert_history[i].symbol \notin Range(attempted)
          /\ \A a \in send_log : a.symbol = alert_history[i].symbol => a.at < now

\* C6 (as stated): an AlertEvent row exists for a notification if and only if
\* that notification was sent successfully.
C6_EventIffSent ==
    /\ \A a \in send_log :
          a.ok => \E i \in DOMAIN alert_history :
                      /\ alert_history[i].symbol = a.symbol
                      /\ alert_history[i].sent_at = a.at
    /\ \A i \in DOMAIN alert_history :
          \E a \in send_log : /\ a.ok
                              /\ a.symbol = alert_history[i].symbol
                              /\ a.at = alert_history[i].sent_at

\* C7: in one pass a symbol is at most once among the candidates, at most once
\* among the send attempts and gets at most one AlertEvent.
C7_OncePerSymbolPerPass ==
    pass_ran =>
        /\ \A i, j \in DOMAIN candidates :
              i # j => candidates[i].symbol # candidates[j].symbol
        /\ \A i, j \in DOMAIN attempted : i # j => attempted[i] # attempted[j]
        /\ Len(attempted) <= Len(candidates)
        /\ \A i, j \in NewEvents :
              i # j => alert_history[i].symbol # alert_history[j].symbol

\* Witness of C7: a pass found two latest rows for one symbol and alerted
\* on that symbol.
C7_TwoRowsOneAlert ==
    /\ pc = "done" /\ pass_ran
    /\ \E r1, r2 \in LatestRows(stock_prices) :
          /\ r1 # r2 /\ r1.symbol = r2.symbol
          /\ r1.symbol \in Range(attempted)
          /\ \E i \in NewEvents : alert_history[i].symbol = r1.symbol

\* The quantities of the classification, from the probe.
ProbePcn == PercentChangeNum(probe.current_price, probe.historical_price[1])
ProbeSignificant == Abs(ProbePcn) >= probe.threshold * probe.historical_price[1]
ProbeExtreme == Abs(ProbePcn) >= EXTREME_PCT * probe.historical_price[1]
ProbeHasRatio == ~IsNull(probe.current_volume) /\ ~IsNull(probe.avg_vol)
ProbeSpike ==
    /\ ProbeHasRatio
    /\ probe.current_volume[1] * probe.avg_vol[1].cnt
           >= VOLUME_MULTIPLIER * probe.avg_vol[1].sum
ProbeEligible == ~IsNull(probe.historical_price) /\ ~probe.in_cooldown
KindIs(kind) == Len(candidates) = 1 /\ candidates[1].alert_type = kind

\* C8: the volume-confirmed rule is tried first: with |percent_change| >=
\* threshold and volume_ratio >= VOLUME_MULTIPLIER the kind is volume_spike_*
\* even when |percent_change| >= 15; extreme_* only when that rule does not
\* match and |percent_change| >= 15; up for a rise, down for a fall.
C8_FirstMatchPriority ==
    (pass_ran /\ ProbeEligible) =>
        /\ (ProbeSignificant /\ ProbeSpike) =>
              KindIs(IF ProbePcn > 0 THEN "volume_spike_up" ELSE "volume_spike_down")
        /\ (~(ProbeSignificant /\ ProbeSpike) /\ ProbeExtreme) =>
              KindIs(IF ProbePcn > 0 THEN "extreme_up" ELSE "extreme_down")
        /\ \A i \in DOMAIN candidates :
              /\ candidates[i].alert_type \in {"volume_spike_up", "extreme_up"}
                    => ProbePcn > 0
              /\ candidates[i].alert_type \in {"volume_spike_down", "extreme_down"}
                    => ProbePcn < 0

\* Witness of C8: a volume-confirmed move of 15% or more classified as
\* volume_spike_up.
C8_VolumeSpikeOverExtreme ==
    /\ pass_ran /\ ProbeEligible
    /\ ProbeSignificant /\ ProbeSpike /\ ProbeExtreme /\ ProbePcn > 0
    /\ KindIs("volume_spike_up")

\* C9: a move that matches neither rule gives no candidate, also when
\* |percent_change| >= threshold with volume_ratio undefined or below
\* VOLUME_MULTIPLIER; percent_change >= 15 without volume data, outside the
\* cooldown, gives an extreme_up candidate.
C9_NoRuleNoAlert ==
    (pass_ran /\ ~IsNull(probe.historical_price)) =>
        /\ (~(ProbeSignificant /\ ProbeSpike) /\ ~ProbeExtreme) => candidates = <<>>
        /\ (ProbePcn >= EXTREME_PCT * probe.historical_price[1]
              /\ ~ProbeHasRatio /\ ~probe.in_cooldown) => KindIs("extreme_up")

\* Witness of C9: a move of at least the threshold and below 15% without a
\* volume ratio produced no candidate.
C9_SignificantWithoutVolume ==
    /\ pass_ran /\ ProbeEligible
    /\ ProbeSignificant /\ ~ProbeExtreme /\ ~ProbeHasRatio
    /\ candidates = <<>>

----------------------------------------------------------------------------
(* Claims about simulate_trade (SpecTrade) *)

\* The gain at the favourable extreme of the sample examined last.
FavourableGain == SampleGains(row[1], entry_price, is_long).high
AdverseGain == SampleGains(row[1], entry_price, is_long).low

\* C10: the walk does not go past a sample whose favourable-extreme gain is
\* >= TAKE_PROFIT_PCT, and the settlement on that sample is take_profit with
\* result TAKE_PROFIT_PCT, whatever the sample's close and other extreme.
C10_TakeProfitFirst ==
    (~IsNull(row) /\ FavourableGain >= TAKE_PROFIT_PCT * entry_price) =>
        /\ trade_pc = "settled"
        /\ trade[1].exit_reason = "take_profit"
        /\ trade[1].result = TAKE_PROFIT_PCT * entry_price
        /\ trade[1].hold_minutes = (trade_i + 1) * SAMPLE_MINUTES

\* Witness of C10: a take-profit settlement on a later sample of the walk
\* whose adverse extreme is at the stop-loss and whose close is below the
\* take-profit.
C10_TakeProfitOverStopLoss ==
    /\ trade_pc = "settled" /\ trade_i > 0
    /\ trade[1].exit_reason = "take_profit"
    /\ AdverseGain <= STOP_LOSS_PCT * entry_price
    /\ SampleGains(row[1], entry_price, is_long).close < TAKE_PROFIT_PCT * entry_price

CloseGain == SampleGains(row[1], entry_price, is_long).close
TakeProfitHolds == FavourableGain >= TAKE_PROFIT_PCT * entry_price
StopLossHolds == AdverseGain <= STOP_LOSS_PCT * entry_price
TrailingStopHolds == trailing_stop_active /\ AdverseGain <= trailing_stop_level
HoldLimit == MAX_HOLD_HOURS * 60

\* Whether the walk ended on the sample examined last (not at the end of the
\* path).
ExitedOnSample == trade_pc = "settled" /\ trade[1].exit_reason # "end_of_data"

\* C11: the walk does not go past a sample whose adverse-extreme gain is
\* <= STOP_LOSS_PCT; unless take-profit fires on it, the settlement on that
\* sample is stop_loss with result STOP_LOSS_PCT and hold_minutes = (1-based
\* sample index) * 5.
C11_StopLossAtLevel ==
    (~IsNull(row) /\ StopLossHolds /\ ~TakeProfitHolds) =>
        /\ trade_pc = "settled"
        /\ trade[1].exit_reason = "stop_loss"
        /\ trade[1].result = STOP_LOSS_PCT * entry_price
        /\ trade[1].hold_minutes = (trade_i + 1) * SAMPLE_MINUTES

\* Witness of C11: a stop-loss settlement on the first sample, whose adverse
\* extreme lies below the stop level; result -3%, hold_minutes 5.
C11_StopOnFirstSample ==
    /\ trade_pc = "settled" /\ trade_i = 0
    /\ trade[1].exit_reason = "stop_loss"
    /\ AdverseGain < STOP_LOSS_PCT * entry_price
    /\ trade[1].result = STOP_LOSS_PCT * entry_price
    /\ trade[1].hold_minutes = SAMPLE_MINUTES

\* C12: on the sample where the walk ends, the exit reason is the first of
\* take_profit, stop_loss, trailing_stop, timeout whose condition holds on
\* that sample; the walk goes past a sample only when none of them holds.
C12_ExitOrder ==
    /\ ExitedOnSample =>
          trade[1].exit_reason =
              IF TakeProfitHolds THEN "take_profit"
              ELSE IF StopLossHolds THEN "stop_loss"
              ELSE IF TrailingStopHolds THEN "trailing_stop"
              ELSE "timeout"
    /\ (ExitedOnSample /\ trade[1].exit_reason = "timeout") =>
          (trade_i + 1) * SAMPLE_MINUTES >= HoldLimit
    /\ (~IsNull(row) /\ ~ExitedOnSample) =>
          /\ ~TakeProfitHolds /\ ~StopLossHolds /\ ~TrailingStopHolds
          /\ trade_i * SAMPLE_MINUTES < HoldLimit

\* Witness of C12: the sample on which the hold time runs out also reaches
\* the stop-loss, and the settlement is stop_loss.
C12_StopOnTimeoutSample ==
    /\ ExitedOnSample
    /\ (trade_i + 1) * SAMPLE_MINUTES >= HoldLimit
    /\ StopLossHolds /\ ~TakeProfitHolds
    /\ trade[1].exit_reason = "stop_loss"

\* C13: without an earlier exit the walk settles as timeout on the first
\* sample with (index + 1) * 5 >= MAX_HOLD_HOURS * 60, at the gain of that
\* sample's close; a path that ends before settles as end_of_data at the gain
\* of its last close (sign-flipped for a short entry) with hold_minutes =
\* path length * 5.
C13_TimeoutOrEndOfData ==
    /\ (ExitedOnSample /\ trade[1].exit_reason = "timeout") =>
          /\ (trade_i + 1) * SAMPLE_MINUTES >= HoldLimit
          /\ trade_i * SAMPLE_MINUTES < HoldLimit
          /\ trade[1].result = CloseGain
          /\ trade[1].hold_minutes = (trade_i + 1) * SAMPLE_MINUTES
    /\ (ExitedOnSample /\ (trade_i + 1) * SAMPLE_MINUTES >= HoldLimit
          /\ ~TakeProfitHolds /\ ~StopLossHolds /\ ~TrailingStopHolds) =>
          trade[1].exit_reason = "timeout"
    /\ trade_pc = "walk" => trade_i * SAMPLE_MINUTES < HoldLimit
    /\ (trade_pc = "settled" /\ trade[1].exit_reason = "end_of_data") =>
          /\ trade[1].result =
                IF is_long THEN (row[1].close - entry_price) * 100
                ELSE -((row[1].close - entry_price) * 100)
          /\ trade[1].hold_minutes = trade_i * SAMPLE_MINUTES
          /\ trade_i * SAMPLE_MINUTES < HoldLimit

\* Witness of C13: a short entry whose path ended without an exit, settled
\* as end_of_data at a gain other than zero.
C13_ShortEndOfData ==
    /\ trade_pc = "settled" /\ ~is_long
    /\ trade[1].exit_reason = "end_of_data"
    /\ trade[1].result # 0
    /\ trade_i > 1

\* A timeout settlement at a close other than the entry price.
C13_TimeoutReached ==
    /\ ExitedOnSample /\ trade[1].exit_reason = "timeout" /\ trade[1].result # 0


----------------------------------------------------------------------------
(* Claims about the aggregator (SpecReport).                               *)

Computed == stats # NULL
Profits24h == Column(outcomes_list, "profit_24h")
Below(xs, m) == Cardinality({i \in DOMAIN xs : xs[i] < m})
AtMost(xs, m) == Cardinality({i \in DOMAIN xs : xs[i] <= m})

\* The element at position k (counted from 0) of the sorted list: at most k
\* elements are smaller and more than k elements are not larger.
IsAtRank(xs, m, k) == Below(xs, m) <= k /\ k < AtMost(xs, m)

\* C18 (as amended): the median of a non-empty list of 24-hour profits is the
\* element at index len // 2 of the sorted list: the middle element for an odd
\* count, the upper-middle element for an even count; no interpolation.
C18_MedianUpperMiddle ==
    (Computed /\ Profits24h # <<>>) =>
        /\ \E i \in DOMAIN Profits24h : Profits24h[i] = stats[1].median_24h
        /\ IsAtRank(Profits24h, stats[1].median_24h, Len(Profits24h) \div 2)

\* C18 witness: a list of two results with different values, whose median is
\* the larger one.
C18_EvenCountTakesUpper ==
    /\ Computed
    /\ Len(Profits24h) = 2
    /\ Profits24h[1] < Profits24h[2]
    /\ stats[1].median_24h = Profits24h[2]

\* C18 (as stated): for an even number of results the median is the
\* lower-middle element of the sorted list.
C18_MedianLowerMiddle ==
    (Computed /\ Profits24h # <<>>) =>
        IsAtRank(Profits24h, stats[1].median_24h, (Len(Profits24h) - 1) \div 2)

Wins(xs) == Cardinality({i \in DOMAIN xs : xs[i] > 0})
ResultLists ==
    { [xs |-> Column(outcomes_list, "profit_1h"), avg |-> stats[1].avg_1h, win_rate |-> stats[1].win_rate_1h],
      [xs |-> Column(outcomes_list, "profit_4h"), avg |-> stats[1].avg_4h, win_rate |-> stats[1].win_rate_4h],
      [xs |-> Column(outcomes_list, "profit_24h"), avg |-> stats[1].avg_24h, win_rate |-> stats[1].win_rate_24h],
      [xs |-> Column(outcomes_list, "trade_result"), avg |-> stats[1].trade_profit, win_rate |-> stats[1].trade_win_rate] }

----------------------------------------------------------------------------
(* Claims about outcome tracking (SpecOutcomes).                           *)

RowsOf(alert_id) == {i \in DOMAIN alert_outcomes : alert_outcomes[i].alert_id = alert_id}
AgeOf(i) == now - alert_outcomes[i].alert_time

\* C14: no alert id has two outcome rows, every row copies its alert; when a
\* sync pass has completed, every alert of its window has exactly one row,
\* and a further sync pass at that moment, whichever of its commits raise,
\* leaves the table as it is.
C14_OneOutcomePerAlert ==
    /\ \A a \in DOMAIN alert_history : Cardinality(RowsOf(a)) <= 1
    /\ \A i \in DOMAIN alert_outcomes :
          /\ alert_outcomes[i].alert_id \in DOMAIN alert_history
          /\ alert_outcomes[i].symbol = alert_history[alert_outcomes[i].alert_id].symbol
          /\ alert_outcomes[i].alert_price = alert_history[alert_outcomes[i].alert_id].price_after
    /\ backtest_pc = "synced" =>
          /\ \A a \in Range(RecentAlerts(alert_history, now)) : Cardinality(RowsOf(a)) = 1
          /\ \A commits \in 0..Len(alert_history) :
                sync_alerts_to_outcomes(alert_outcomes, alert_history, now, commits) = alert_outcomes

\* C14 witness: a sync pass has completed over two alerts whose rows an
\* earlier run had already created and checked at the one-hour horizon.
C14_SyncedAgain ==
    /\ backtest_pc = "synced"
    /\ Len(alert_history) = 2
    /\ Len(alert_outcomes) = 2
    /\ \A i \in DOMAIN alert_outcomes : alert_outcomes[i].checked_1h

\* C15 (as stated): an outcome older than MAX_HOLD_HOURS whose simulation has
\* given no result stays among the rows that later check_outcomes passes
\* select, so that its simulation is attempted again.
C15_UnsettledRetried ==
    \A i \in DOMAIN alert_outcomes :
        (AgeOf(i) >= MAX_HOLD_HOURS * TicksPerHour /\ ~alert_outcomes[i].trade_checked)
            => i \in outcomes_to_check(alert_outcomes)

\* C16 (as stated): a trade settlement is only ever computed from the samples
\* of the alert's own window.
C16_SettledFromOwnWindow ==
    \A i \in DOMAIN alert_outcomes :
        alert_outcomes[i].trade_checked => settled_from[i] = "window"

TradeColumns == {"trade_result", "trade_exit_reason", "trade_max_gain", "trade_max_drawdown", "trade_hold_minutes", "trade_checked"}
HorizonColumns == {<<"checked_1h", "price_1h", "profit_1h">>, <<"checked_4h", "price_4h", "profit_4h">>, <<"checked_24h", "price_24h", "profit_24h">>}

\* C17: no step changes the trade columns of a row whose trade_checked is
\* set, nor the price, the profit or the flag of a horizon whose checked flag
\* is set; rows are never removed.
C17_SettledImmutable ==
    [][\A i \in DOMAIN alert_outcomes :
          /\ i \in DOMAIN alert_outcomes'
          /\ alert_outcomes[i].trade_checked =>
                \A c \in TradeColumns : alert_outcomes'[i][c] = alert_outcomes[i][c]
          /\ \A h \in HorizonColumns :
                alert_outcomes[i][h[1]] =>
                    \A k \in 1..3 : alert_outcomes'[i][h[k]] = alert_outcomes[i][h[k]]]_vars

\* C17 witness: a row whose one-hour and four-hour prices differ, hence were
\* written by two passes, the second of which found checked_1h set; its trade
\* is settled and a run two days after the alert has ended.
C17_CheckedAgainLater ==
    /\ backtest_pc = "checked"
    /\ now = 2 * MAX_HOLD_HOURS * TicksPerHour
    /\ \E i \in DOMAIN alert_outcomes :
          /\ alert_outcomes[i].trade_checked
          /\ alert_outcomes[i].checked_1h
          /\ alert_outcomes[i].checked_4h
          /\ alert_outcomes[i].price_1h # alert_outcomes[i].price_4h


----------------------------------------------------------------------------
(* Claims about failures in a scraper run (SpecScrape, SpecScrapeLive).    *)

FailedChunks == {c \in DOMAIN save_log : ~save_log[c].committed}
ChunkOf(i) == ((i - 1) \div SAVE_BATCH_SIZE) + 1
RunCompleted == pc = "done" /\ pass_ran

\* C21 (as stated): a chunk whose write failed has been written a second
\* time before the session was replaced.
C21_FailedChunkRetried ==
    \A c \in FailedChunks : save_log[c].writes = 2

\* C22: after the save of a run, every chunk of the run's observations has
\* been attempted and the rows of each committed chunk are in the store,
\* whichever other chunk failed; and a run whose save had a failed chunk goes
\* on to the end of its detection pass.
C22_FailedChunkDoesNotAbort ==
    /\ []((pc \in {"saved", "quarantined"} \/ RunCompleted) =>
             /\ Len(save_log) = (Len(stock_data) + SAVE_BATCH_SIZE - 1) \div SAVE_BATCH_SIZE
             /\ \A i \in DOMAIN stock_data :
                   save_log[ChunkOf(i)].committed => ObservationRow(i) \in stock_prices)
    /\ (pc = "saved" /\ FailedChunks # {}) ~> (RunCompleted /\ FailedChunks # {})

\* C22 witness: a run of two chunks has ended its detection pass; the first
\* chunk failed, the second one was committed and its row is stored.
C22_SecondChunkStored ==
    /\ RunCompleted
    /\ Len(save_log) = 2
    /\ ~save_log[1].committed
    /\ save_log[2].committed
    /\ ObservationRow(Len(stock_data)) \in stock_prices

\* C23: the step of a run that fails to read the symbol table ends the run
\* (from "idle" straight to "done") and changes neither the stored
\* observations, nor the quarantine dates, nor the alert history, nor the send
\* log; no detection pass is executed.
C23_UnreadableUniverseIsFatal ==
    [][(pc = "idle" /\ pc' = "done") =>
          /\ UNCHANGED <<stock_prices, quarantined_until, alert_history, send_log>>
          /\ ~pass_ran'
          /\ stock_data' = <<>> /\ failed_symbols' = <<>> /\ save_log' = <<>>]_vars

\* C23 witness: the second run has ended without a detection pass, after a
\* first run that stored observations.
C23_SecondRunAborted ==
    /\ runs = 1
    /\ pc = "done"
    /\ ~pass_ran
    /\ stock_prices # {}

\* C24 (as stated): a symbol whose fetch has failed in one run only, here the
\* first run, does not get its quarantined_until set by that run.
C24_SingleFailureNotQuarantined ==
    (runs = 0 /\ pc \in {"quarantined", "done"}) =>
        \A s \in Range(failed_symbols) : quarantined_until[s] # QuarantineEnd

\* C29 (as stated): once the save of a run has returned, no database
\* operation having raised, the store holds no observation older than
\* PRUNE_HOURS, even when the run fetched no price.
C29_NoStaleObservation ==
    (pc \in {"saved", "quarantined"} /\ db_faults = 0) =>
        \A r \in stock_prices : r.timestamp >= now - (PRUNE_HOURS * TicksPerHour)


----------------------------------------------------------------------------
(* Claims about the entry price of an outcome (SpecOutcomes).              *)

IsUpKind(i) == alert_outcomes[i].alert_type \in {"extreme_up", "volume_spike_up", "spike_up"}

\* The alert price a moved against the trader by SLIPPAGE_PCT: the e with
\* e = a * (1 + SLIPPAGE_PCT / 100) for a long and e = a * (1 - SLIPPAGE_PCT /
\* 100) for a short entry.
SlippedEntry(a, up) ==
    CHOOSE e \in 0..(2 * a) :
        1000 * e = (IF up THEN 1000 + SLIPPAGE_PER_MILLE ELSE 1000 - SLIPPAGE_PER_MILLE) * a

\* The gain in percent of the price p for an entry at e, as a quotient.
GainOver(e, p, up) == IF up THEN Ratio((p - e) * 100, e) ELSE Ratio((e - p) * 100, e)

HorizonPairs == {<<"price_1h", "profit_1h">>, <<"price_4h", "profit_4h">>, <<"price_24h", "profit_24h">>}

\* C25: every horizon profit of every row is the gain of the horizon price
\* over the alert price moved against the trader by SLIPPAGE_PCT (up for the
\* long entry of an up kind, down for the short entry of a down kind), and a
\* trade settled from the alert's own window has its extremes measured from
\* that same entry: the maximal gain of a long entry from the high of the
\* rising sample, the maximal drawdown of a short entry from that high too.
C25_EntryWithSlippage ==
    \A i \in DOMAIN alert_outcomes :
        LET e == SlippedEntry(alert_outcomes[i].alert_price, IsUpKind(i))
        IN  /\ \A h \in HorizonPairs :
                  ~IsNull(alert_outcomes[i][h[2]]) =>
                      RatioEq(alert_outcomes[i][h[2]][1],
                              GainOver(e, alert_outcomes[i][h[1]][1], IsUpKind(i)))
            /\ (alert_outcomes[i].trade_checked /\ settled_from[i] = "window") =>
                  IF IsUpKind(i)
                  THEN RatioEq(alert_outcomes[i].trade_max_gain[1],
                               GainOver(e, UpSample.high, TRUE))
                  ELSE RatioEq(alert_outcomes[i].trade_max_drawdown[1],
                               GainOver(e, UpSample.high, FALSE))

\* C25 witness: an up alert and a down alert both have their 24-hour profit
\* and a trade settled from their own window.
C25_LongAndShortSettled ==
    \E i, j \in DOMAIN alert_outcomes :
        /\ IsUpKind(i) /\ ~IsUpKind(j)
        /\ \A k \in {i, j} :
              /\ alert_outcomes[k].checked_24h
              /\ alert_outcomes[k].trade_checked
              /\ settled_from[k] = "window"


----------------------------------------------------------------------------
(* Claims about the trailing stop of a simulation (SpecTrade).             *)

\* C26: as long as trailing is not active the level is STOP_LOSS_PCT; no
\* sample lowers the level or deactivates trailing; trailing becomes active
\* on the sample on which max_gain reaches TRAILING_STOP_TRIGGER, where the
\* level restarts from 0; and after a sample with trailing active the level
\* is the larger of the level before (0 on activation) and max_gain minus
\* TRAILING_GAP.
C26_TrailingLevelRatchets ==
    /\ [](trade_pc \in {"walk", "settled"} /\ ~trailing_stop_active
             => trailing_stop_level = STOP_LOSS_PCT * entry_price)
    /\ [][trade_pc = "walk" =>
             /\ trailing_stop_level' >= trailing_stop_level
             /\ trailing_stop_active => trailing_stop_active'
             /\ trailing_stop_active' =
                   (trailing_stop_active \/ max_gain' >= TRAILING_STOP_TRIGGER * entry_price)
             /\ trailing_stop_active' =>
                   trailing_stop_level' =
                       Max(IF trailing_stop_active THEN trailing_stop_level ELSE 0,
                           max_gain' - (TRAILING_GAP * entry_price))]_vars

\* C26 witness: a sample has activated trailing and the level has moved from
\* STOP_LOSS_PCT up to max_gain minus TRAILING_GAP, above 0.
C26_TrailingActivated ==
    /\ trade_pc = "settled"
    /\ trailing_stop_active
    /\ trailing_stop_level = max_gain - (TRAILING_GAP * entry_price)
    /\ trailing_stop_level > 0
    /\ row[1].close < entry_price


----------------------------------------------------------------------------
(* Claims about the rankings of the report (SpecReport).                   *)

TradeResults == Column(outcomes_list, "trade_result")
ResultsOf(rows) == [i \in DOMAIN rows |-> rows[i].trade_result[1]]
Reversed(xs) == [i \in DOMAIN xs |-> xs[Len(xs) + 1 - i]]
FirstN(xs) == SubSeq(xs, 1, Min(RANK_SIZE, Len(xs)))

\* C27 (as stated): the results of the best list are the RANK_SIZE highest
\* and those of the worst list the RANK_SIZE lowest trade results among all
\* rows that have a trade result, a result of exactly 0 included, in order.
C27_ZeroResultEligible ==
    Computed =>
        /\ ResultsOf(best) = FirstN(Reversed(sorted(TradeResults)))
        /\ ResultsOf(worst) = FirstN(sorted(TradeResults))


----------------------------------------------------------------------------
(* Claims about the independence of the symbols of a pass (SpecAlerts).    *)

\* C28 (as stated): whatever happens to the alert of one symbol, a send is
\* attempted for every other candidate of the pass, so that the events of a
\* pass do not depend on the order of its candidates.
C28_SymbolsIndependent ==
    pass_ran =>
        \A i \in DOMAIN candidates : candidates[i].symbol \in Range(attempted)

----------------------------------------------------------------------------
(* Specification SpecPipeline: the scraper runs of scrape_prices.py, each   *)
(* ending with its detection pass, and the backtest runs of backtest.py on  *)
(* the same database. The two are separate scheduled processes, so their    *)
(* steps interleave. Every symbol has an observation one lookback period    *)
(* old at a lower price, so that a fetched quote is an extreme move.        *)

EarlierObservations ==
    {[symbol |-> s, price |-> (ScrapeQuote.price * 4) \div 5, volume |-> <<10>>,
      timestamp |-> StartTime - (LOOKBACK_HOURS * TicksPerHour)] : s \in AlertSymbols}

InitPipeline ==
    /\ now = StartTime
    /\ SYMBOLS_PER_RUN \in 1..MaxSymbolsPerRun
    /\ BATCH_SIZE = 1
    /\ quarantined_until = [s \in AlertSymbols |-> NULL]
    /\ pc = "idle"
    /\ runs = 0
    /\ total_active = 0
    /\ offset = 0
    /\ stock_symbols = <<>>
    /\ covered = {}
    /\ FetchIdle
    /\ NoOverlap
    /\ stock_prices = EarlierObservations
    /\ AlertsIdle
    /\ probe = <<>>
    /\ TradeIdle
    /\ BacktestIdle

\* backtest.py __main__: the process ends after check_outcomes (or after the
\* exception that ended it), and the scheduler starts the next one.
BacktestDone ==
    /\ backtest_pc \in {"sync_failed", "checked"}
    /\ backtest_pc' = "idle"
    /\ UNCHANGED <<now, scrapeVars, stock_prices, alertVars, probe, tradeVars,
                   alert_outcomes, settled_from, reportVars, overlapping>>

\* One run for each of the symbols is followed.
PipelineNextRun == StartNextRun(Cardinality(AlertSymbols))

NextPipeline ==
    \/ Fetch
    \/ FetchRaises
    \/ Save
    \/ Quarantine
    \/ RunAlerts
    \/ PipelineNextRun
    \/ SyncAlerts
    \/ CheckOutcomes
    \/ BacktestDone

SpecPipeline == InitPipeline /\ [][NextPipeline]_vars

----------------------------------------------------------------------------
(* C30 *)

\* The step is the detection pass that ends a scraper run.
DetectionStep == pc = "quarantined" /\ pc' = "done"

\* The step is one of the scraper's own: the fetch, the save, the quarantine
\* of the failed symbols, an aborted run, or the start of the next run.
ScraperStep == pc' # pc /\ ~DetectionStep

\* The step is the sync or the check of a backtest run.
SettlementStep == backtest_pc = "idle" \/ backtest_pc' = "checked"

\* The AlertHistory rows of before are all still there, unchanged and in
\* place.
AlertEventsKept ==
    /\ Len(alert_history') >= Len(alert_history)
    /\ \A i \in DOMAIN alert_history : alert_history'[i] = alert_history[i]

\* C30: no component mutates another's entities. A detection pass leaves the
\* quarantine state of the symbols and the price observations unchanged and
\* only appends AlertHistory rows; the sync and the check of the backtest
\* leave every AlertHistory row as it is (and the symbols and observations
\* too); a scraper step neither creates nor changes AlertHistory rows or
\* outcomes.
C30_ComponentsKeepToTheirOwn ==
    [][ /\ DetectionStep =>
              /\ UNCHANGED <<quarantined_until, stock_prices, alert_outcomes>>
              /\ AlertEventsKept
        /\ (SettlementStep /\ backtest_pc' # backtest_pc) =>
              UNCHANGED <<alert_history, quarantined_until, stock_prices>>
        /\ ScraperStep => UNCHANGED <<alert_history, alert_outcomes>> ]_vars

\* C30 (witness): all three components have written: the scraper stored the
\* quote of this run and quarantined a symbol, the detection pass recorded an
\* alert, and the backtest tracked it and filled a horizon.
C30_AllThreeWrote ==
    /\ \E r \in stock_prices : r.timestamp = now
    /\ \E s \in DOMAIN quarantined_until : ~IsNull(quarantined_until[s])
    /\ alert_history # <<>>
    /\ \E i \in DOMAIN alert_outcomes : alert_outcomes[i].checked_1h

----------------------------------------------------------------------------
(* C31 - C34 : the settlements of simulate_trade *)

Settled == trade_pc = "settled"

\* C31: with TRAILING_STOP_TRIGGER = TAKE_PROFIT_PCT, no path makes
\* simulate_trade return the exit reason trailing_stop: the sample on which
\* max_gain reaches the trigger also reaches the take-profit, which is tried
\* first; the trailing stop is never active on a sample the walk goes past.
C31_NoTrailingStopExit ==
    /\ Settled => trade[1].exit_reason # "trailing_stop"
    /\ trade_pc = "walk" => ~trailing_stop_active
    /\ (Settled /\ trailing_stop_active) => trade[1].exit_reason = "take_profit"

\* C31 (witness): the trailing stop was activated on a sample whose adverse
\* extreme is at or below the trailing level, and the trade settled there.
C31_TrailingReachedOnExit ==
    /\ Settled
    /\ trailing_stop_active
    /\ AdverseGain <= trailing_stop_level
    /\ AdverseGain > STOP_LOSS_PCT * entry_price

\* C32: the result of a settlement lies in [STOP_LOSS_PCT, TAKE_PROFIT_PCT]:
\* it is TAKE_PROFIT_PCT for take_profit, STOP_LOSS_PCT for stop_loss, and
\* strictly between the two for timeout and end_of_data.
C32_ResultWithinStops ==
    Settled =>
        /\ trade[1].result >= STOP_LOSS_PCT * entry_price
        /\ trade[1].result <= TAKE_PROFIT_PCT * entry_price
        /\ trade[1].exit_reason = "take_profit" =>
              trade[1].result = TAKE_PROFIT_PCT * entry_price
        /\ trade[1].exit_reason = "stop_loss" =>
              trade[1].result = STOP_LOSS_PCT * entry_price
        /\ trade[1].exit_reason \in {"timeout", "end_of_data"} =>
              /\ trade[1].result > STOP_LOSS_PCT * entry_price
              /\ trade[1].result < TAKE_PROFIT_PCT * entry_price

\* C32 (witness): a timeout settlement at a loss, after a path that had
\* gained before.
C32_TimeoutAtALoss ==
    /\ Settled
    /\ trade[1].exit_reason = "timeout"
    /\ trade[1].result < 0
    /\ max_gain > 0

\* C33: every settlement has max_drawdown <= 0 <= max_gain and
\* max_drawdown <= result <= max_gain.
C33_ResultBetweenExtremes ==
    Settled =>
        /\ trade[1].max_drawdown <= 0
        /\ 0 <= trade[1].max_gain
        /\ trade[1].max_drawdown <= trade[1].result
        /\ trade[1].result <= trade[1].max_gain

\* C33 (witness): a short entry settled at the end of its data at a loss,
\* with both a gain and a drawdown on the way.
C33_ShortWithBothExtremes ==
    /\ Settled /\ ~is_long
    /\ trade[1].exit_reason = "end_of_data"
    /\ trade[1].result < 0
    /\ trade[1].max_drawdown < 0
    /\ trade[1].max_gain > 0

\* C34: hold_minutes of a settlement is a positive multiple of 5 and at most
\* MAX_HOLD_HOURS * 60; the walk examines no sample after the one on which
\* the elapsed time reaches MAX_HOLD_HOURS.
C34_HoldMinutesBounded ==
    /\ Settled =>
          /\ trade[1].hold_minutes > 0
          /\ trade[1].hold_minutes % SAMPLE_MINUTES = 0
          /\ trade[1].hold_minutes <= HoldLimit
    /\ (trade_i + 1) * SAMPLE_MINUTES <= HoldLimit
    /\ trade_pc = "walk" => trade_i * SAMPLE_MINUTES < HoldLimit

\* C34 (witness): a settlement on the last sample the walk may examine, by
\* an exit other than the timeout.
C34_LastSampleExit ==
    /\ Settled
    /\ trade[1].hold_minutes = HoldLimit
    /\ trade[1].exit_reason = "take_profit"

----------------------------------------------------------------------------
(* C35 *)

\* The symbols of the observations fetched by the run, in order.
FetchedSymbols == [k \in DOMAIN stock_data |-> stock_data[k].symbol]

\* How many times symbol s occurs in the sequence q.
Occurrences(s, q) == Cardinality({k \in DOMAIN q : q[k] = s})

\* The numbers of symbols that a loop stopped by the time budget can have
\* processed: whole batches, or the whole slice.
BatchBoundaries ==
    {k \in 0..Len(stock_symbols) : k % BATCH_SIZE = 0 \/ k = Len(stock_symbols)}

----------------------------------------------------------------------------
(* C36 *)

\* C36: after any sequence of check_outcomes passes, the horizon flags of an
\* outcome are nested: checked_24h implies checked_4h, which implies
\* checked_1h; and trade_checked implies that the alert is at least
\* MAX_HOLD_HOURS old.
C36_HorizonFlagsNested ==
    \A i \in DOMAIN alert_outcomes :
        /\ alert_outcomes[i].checked_24h => alert_outcomes[i].checked_4h
        /\ alert_outcomes[i].checked_4h => alert_outcomes[i].checked_1h
        /\ alert_outcomes[i].trade_checked => AgeOf(i) >= MAX_HOLD_HOURS * TicksPerHour

\* C36 (witness): an outcome whose first pass came a day or more after the
\* alert, so that its three horizons were filled by that one pass, and whose
\* trade is settled; next to it an outcome that no pass could yet complete.
C36_AllHorizonsInOnePass ==
    /\ backtest_pc = "checked"
    /\ \E i \in DOMAIN alert_outcomes :
          /\ alert_outcomes[i].checked_24h
          /\ alert_outcomes[i].trade_checked
          /\ alert_outcomes[i].price_1h = alert_outcomes[i].price_24h
    /\ \E i \in DOMAIN alert_outcomes : ~alert_outcomes[i].checked_1h

----------------------------------------------------------------------------
(* C37 *)

\* C37 (as stated): the count returned by check_price_alerts is the number
\* of AlertHistory rows the pass created, on every exit path, the one where
\* an error interrupts the pass after some alerts were sent included.
C37_CountIsEventsCreated ==
    pass_ran => alerts_sent = Len(alert_history) - hist_before

----------------------------------------------------------------------------
(* Specification SpecOverlap: two detection passes side by side. Nothing in *)
(* check_price_alerts or in __main__ of scrape_prices.py keeps a second     *)
(* run (a second scheduled or manual start of the scraper) from entering    *)
(* the pass while the first is in it. A pass reads the tables first (lines  *)
(* 150-292, the cooldown query at lines 220-227 among them) and sends and   *)
(* records afterwards (lines 296-323).                                      *)

Passes == {1, 2}

PassIdle == [pos |-> "idle", candidates |-> <<>>]

\* lines 150-292: the candidate lists a pass can build from the tables as
\* they are now.
CandidateLists ==
    LET lookback_time == now - LOOKBACK_HOURS * TicksPerHour
        cooldown_time == now - ALERT_COOLDOWN_HOURS * TicksPerHour
        latest == LatestRows(stock_prices)
        historical == LatestRows({r \in stock_prices : r.timestamp <= lookback_time})
        cooldown_symbols == CooldownSymbols(alert_history, cooldown_time)
        found(current_data, historical_data) ==
            CandidatesOf(SymbolList(current_data, latest), current_data, historical_data,
                         alerts_config, cooldown_symbols, now)
    IN UNION { UNION { { [i \in 1..Len(found(cd, hd)) |-> found(cd, hd)[order[i]]] :
                           order \in Perms(1..Len(found(cd, hd))) } :
                       hd \in Dicts(historical) } :
               cd \in Dicts(latest) }

InitOverlap ==
    /\ now = LOOKBACK_HOURS * TicksPerHour
    /\ SYMBOLS_PER_RUN = 1
    /\ BATCH_SIZE = 1
    /\ quarantined_until = [s \in AlertSymbols |-> NULL]
    /\ pc = "idle"
    /\ runs = 0
    /\ total_active = 0
    /\ offset = 0
    /\ stock_symbols = <<>>
    /\ covered = {}
    /\ FetchIdle
    /\ stock_prices =
          {[symbol |-> s, price |-> 100, volume |-> <<10>>, timestamp |-> 0] :
              s \in AlertSymbols}
    /\ AlertsIdle
    /\ probe = <<>>
    /\ TradeIdle
    /\ BacktestIdle
    /\ overlapping = [p \in Passes |-> PassIdle]

\* lines 129-292 of pass p: the queries, the cooldown query among them, and
\* the candidates built from them.
PassRead(p) ==
    /\ pc = "saved"
    /\ overlapping[p].pos = "idle"
    /\ \/ \E cands \in CandidateLists :
             overlapping' = [overlapping EXCEPT ![p] = [pos |-> "read", candidates |-> cands]]
       \/ \* a query raises: the pass prints the error and returns 0
          overlapping' = [overlapping EXCEPT ![p] = [pos |-> "done", candidates |-> <<>>]]
    /\ UNCHANGED <<now, scrapeVars, stock_prices, alertVars, probe, tradeVars,
                   outcomeVars, reportVars>>

\* lines 296-334 of pass p: the send loop over the candidates it has built.
PassSend(p) ==
    /\ overlapping[p].pos = "read"
    /\ LET cands == overlapping[p].candidates
       IN /\ candidates' = cands
          /\ pass_ran' = TRUE
          /\ hist_before' = Len(alert_history)
          /\ \E o \in [1..Len(cands) -> SendOutcomes] :
                /\ \A i, j \in 1..Len(cands) :
                      (o[i] = "commit_failed" /\ i < j) => o[j] = "ok"
                /\ Cardinality(SendFaults)
                      + Cardinality({i \in 1..Len(cands) : o[i] # "ok"})
                      <= MaxFaults
                /\ SendLoop(cands, o)
    /\ overlapping' = [overlapping EXCEPT ![p] = [pos |-> "done", candidates |-> <<>>]]
    /\ UNCHANGED <<now, scrapeVars, stock_prices, alerts_config, probe, tradeVars,
                   outcomeVars, reportVars>>

\* The runs are over; an hour later the next ones save their observations
\* and start again.
OverlapTick ==
    /\ \A p \in Passes : overlapping[p].pos # "read"
    /\ now + TicksPerHour <= AlertHorizon
    /\ now' = now + TicksPerHour
    /\ pc' = "idle"
    /\ overlapping' = [p \in Passes |-> PassIdle]
    /\ candidates' = <<>>
    /\ attempted' = <<>>
    /\ alerts_sent' = 0
    /\ hist_before' = 0
    /\ pass_ran' = FALSE
    /\ pass_raised' = FALSE
    /\ UNCHANGED <<cfgVars, quarantined_until, runs, sliceVars, covered, fetchVars,
                   stock_prices, alerts_config, alert_history, send_log, probe,
                   tradeVars, outcomeVars, reportVars>>

NextOverlap ==
    \/ Observe
    \/ \E p \in Passes : PassRead(p)
    \/ \E p \in Passes : PassSend(p)
    \/ OverlapTick

SpecOverlap == InitOverlap /\ [][NextOverlap]_vars

----------------------------------------------------------------------------
(* C38 *)

\* C38 (as stated): also when two detection passes overlap, no symbol has
\* two AlertHistory rows less than a cooldown period apart.
C38_OnePerCooldownWindow ==
    \A i, j \in DOMAIN alert_history :
        (i < j /\ alert_history[i].symbol = alert_history[j].symbol)
            => alert_history[j].sent_at - alert_history[i].sent_at >= CooldownTicks

====
